---- MODULE Spec2Model ----
(***************************************************************************)
(* Model of the constrained-device application (CDA) control loop:         *)
(*   BaseActuatorSimTask   - per-actuator debouncing state machine         *)
(*   ActuatorAdapterManager - router of commands to actuator tasks         *)
(*   DeviceDataManager     - hub: caches, threshold rules, upstream sends  *)
(* Every handler is one action; a handler's nested calls are operators     *)
(* that return the new state, the return value and the list of calls and   *)
(* side effects the handler made, in order.  Time stamps are not modelled. *)
(***************************************************************************)
EXTENDS Integers, Sequences, FiniteSets, TLC

VARIABLES
    cfg,                \* configuration read by the constructors
    adapters,           \* ActuatorAdapterManager's actuator task fields
    sensorCache,        \* DeviceDataManager.latestSensorDataCache
    actuatorCache,      \* DeviceDataManager.latestActuatorDataCache
    last,               \* the handler call made by the last step: what it
                        \* was given, what it returned, and the calls and
                        \* side effects it made, in order, itself first
    repeated,           \* the step's updateActuator call repeats the one
                        \* of the step before: same task, same type-matching
                        \* (command, value)
    handled,            \* for each sensor name, the reading of that name
                        \* that handleSensorMessage was called with last
    sched,              \* for each polling manager, its scheduler and the
                        \* position of its startManager/stopManager caller
    perfCache,          \* DeviceDataManager.latestSystemPerfDataCache
    sensorTask,         \* a sensor task: the fields of BaseSensorSimTask
    generated,          \* the number of generateTelemetry calls made on it
    app,                \* the position of main() and the fields of its
                        \* ConstrainedDeviceApp
    flight,             \* the executions of the sensor job, in the order in
                        \* which they started: how far each has come, and
                        \* for each sensor name the latest started execution
                        \* that has written the name to the cache
    perfData,           \* a SystemPerformanceData instance: its fields
    hub,                \* the position of the caller of DeviceDataManager's
                        \* startManager/stopManager, and the state of the
                        \* MQTT client
    threads             \* two threads inside updateActuator of one task, or
                        \* inside generateTelemetry of the sensor task: how
                        \* far each has come and what it holds

vars == <<cfg, adapters, sensorCache, actuatorCache, last, repeated, handled,
          sched, perfCache, sensorTask, generated, app, flight, perfData, hub,
          threads>>

\* the variables of the data instance, of the hub's lifecycle and of the
\* threads inside one task
lateVars == <<perfData, hub, threads>>

\* the variables of the sensor task, of main() and of the executions of the
\* sensor job, and those above
simVars == <<sensorTask, generated, app, flight, lateVars>>

(***************************************************************************)
(* Values of ConfigConst used by the modelled code.                        *)
(***************************************************************************)
COMMAND_OFF == 0
COMMAND_ON == 1
DEFAULT_COMMAND == COMMAND_OFF
DEFAULT_VAL == 0
DEFAULT_STATUS == 0
NOT_SET == "Not Set"
DEFAULT_ACTUATOR_TYPE == "DEFAULT_ACTUATOR_TYPE"

VENTILATION_ACTUATOR_TYPE == "VENTILATION_ACTUATOR_TYPE"
AIR_PURIFIER_ACTUATOR_TYPE == "AIR_PURIFIER_ACTUATOR_TYPE"
LED_DISPLAY_ACTUATOR_TYPE == "LED_DISPLAY_ACTUATOR_TYPE"
HVAC_ACTUATOR_TYPE == "HVAC_ACTUATOR_TYPE"
HUMIDIFIER_ACTUATOR_TYPE == "HUMIDIFIER_ACTUATOR_TYPE"

VENTILATION_ACTUATOR_NAME == "VentilationActuator"
AIR_PURIFIER_ACTUATOR_NAME == "AirPurifierActuator"
LED_ACTUATOR_NAME == "LedActuator"

CO2_SENSOR_TYPE == "CO2_SENSOR_TYPE"
TEMP_SENSOR_TYPE == "TEMP_SENSOR_TYPE"
HUMIDITY_SENSOR_TYPE == "HUMIDITY_SENSOR_TYPE"
PRESSURE_SENSOR_TYPE == "PRESSURE_SENSOR_TYPE"

\* None
Null == [kind |-> "null"]
\* a Python bool handed back by a handler
Bool(b) == [bool |-> b]

(***************************************************************************)
(* Bounds of the model: the inputs the handlers are driven with.           *)
(***************************************************************************)
\* the largest value carried by a command that is handed in directly
MaxCmdValue == 1
\* the command codes handed in directly are 0..MaxCommandCode: OFF, ON and
\* codes that are neither
MaxCommandCode == 2

\* the configured device location, and a location of another device
LocalLocationID == "constraineddevice001"
OtherLocationID == "otherdevice"
LocationIDs == {LocalLocationID, OtherLocationID}

ActuatorTypes ==
    { VENTILATION_ACTUATOR_TYPE, AIR_PURIFIER_ACTUATOR_TYPE,
      LED_DISPLAY_ACTUATOR_TYPE, HVAC_ACTUATOR_TYPE, HUMIDIFIER_ACTUATOR_TYPE }

(***************************************************************************)
(* ActuatorData                                                            *)
(***************************************************************************)
\* ActuatorData.__init__ : the fields of a fresh instance
ActuatorData(typeID, name) ==
    [ name |-> name, typeID |-> typeID, locationID |-> NOT_SET,
      statusCode |-> DEFAULT_STATUS,
      value |-> DEFAULT_VAL, command |-> DEFAULT_COMMAND,
      stateData |-> "", isResponse |-> FALSE ]

\* ActuatorData.setAsResponse
setAsResponse(d) == [d EXCEPT !.isResponse = TRUE]

setStatusCode(d, statusCode) == [d EXCEPT !.statusCode = statusCode]

\* _handleUpdateData that leaves the state data as it is
ActuatorData_handleUpdateData_withoutStateData(self, data) ==
    [ self EXCEPT !.value = data.value,
                  !.command = data.command,
                  !.isResponse = IF data.isResponse THEN TRUE ELSE @ ]

\* _handleUpdateData that copies the response flag as it finds it
ActuatorData_handleUpdateData_flagCopied(self, data) ==
    [ self EXCEPT !.value = data.value,
                  !.command = data.command,
                  !.stateData = data.stateData,
                  !.isResponse = data.isResponse ]

\* ActuatorData._handleUpdateData : value, command and state data are
\* copied; the response flag is only ever raised
ActuatorData_handleUpdateData(self, data) ==
    [ self EXCEPT !.value = data.value,
                  !.command = data.command,
                  !.stateData = data.stateData,
                  !.isResponse = IF data.isResponse THEN TRUE ELSE @ ]

\* BaseIotData.updateData : the shared fields are copied from `data`, then the
\* subclass hook copies its own
updateData(self, data) ==
    ActuatorData_handleUpdateData(
        [ self EXCEPT !.name = data.name, !.typeID = data.typeID,
                      !.locationID = data.locationID,
                      !.statusCode = data.statusCode ],
        data)

(***************************************************************************)
(* A call or side effect made while a handler runs.                        *)
(***************************************************************************)
Ev(ev, who, data, ret) == [ev |-> ev, who |-> who, data |-> data, ret |-> ret]

\* the result of a nested call is computed once and handed to what follows
\* the call
Then(result, Rest(_)) == CHOOSE out \in {Rest(r) : r \in {result}} : TRUE

\* the calls named `ev` in a handler's list of calls
Calls(log, ev) == SelectSeq(log, LAMBDA e : e.ev = ev)

(***************************************************************************)
(* BaseActuatorSimTask                                                     *)
(***************************************************************************)
\* BaseActuatorSimTask.__init__
BaseActuatorSimTask(name, typeID) ==
    [ name |-> name, typeID |-> typeID,
      latestActuatorResponse |-> setAsResponse(ActuatorData(typeID, name)),
      lastKnownCommand |-> DEFAULT_COMMAND,
      lastKnownValue |-> DEFAULT_VAL ]

\* typeMatches without the comparison of the types
typeMatches_anyType(self, data) == data # Null

\* the guard of updateActuator: data is given and is of this actuator's type
typeMatches(self, data) == data # Null /\ self.typeID = data.typeID

\* isRepeat with the value compared against the stored command
isRepeat_valueAgainstCommand(self, curCommand, curVal) ==
    curCommand = self.lastKnownCommand /\ curVal = self.lastKnownCommand

\* the repeat test of updateActuator
isRepeat(self, curCommand, curVal) ==
    curCommand = self.lastKnownCommand /\ curVal = self.lastKnownValue

\* _activateActuator and _deactivateActuator (and their overrides in
\* LedDisplayEmulatorTask) log or display, and return 0
_activateActuator(who, data) ==
    [statusCode |-> 0, log |-> <<Ev("_activateActuator", who, data, Null)>>]

_deactivateActuator(who, data) ==
    [statusCode |-> 0, log |-> <<Ev("_deactivateActuator", who, data, Null)>>]

\* applyCommand that takes every code other than ON for OFF
applyCommand_unknownIsOff(who, data) ==
    IF data.command = COMMAND_ON THEN _activateActuator(who, data)
    ELSE _deactivateActuator(who, data)

\* the command switch of updateActuator
applyCommand(who, data) ==
    IF data.command = COMMAND_ON THEN _activateActuator(who, data)
    ELSE IF data.command = COMMAND_OFF THEN _deactivateActuator(who, data)
    ELSE [statusCode |-> -1, log |-> <<>>]

\* the response built by updateActuator from the command it applied
buildResponse(data, statusCode) ==
    setAsResponse(
        setStatusCode(updateData(ActuatorData(DEFAULT_ACTUATOR_TYPE, NOT_SET), data),
                      statusCode))

\* BaseActuatorSimTask.updateActuator, on the task `self` held in field `who`
updateActuator(who, self, data) ==
    IF typeMatches(self, data)
    THEN IF isRepeat(self, data.command, data.value)
         THEN [self |-> self, ret |-> Null, log |-> <<>>]
         ELSE Then(applyCommand(who, data), LAMBDA done :
              Then(buildResponse(data, done.statusCode), LAMBDA actuatorResponse :
                  [ self |-> [ self EXCEPT
                                 !.lastKnownCommand = data.command,
                                 !.lastKnownValue = data.value,
                                 !.latestActuatorResponse =
                                     updateData(@, actuatorResponse) ],
                    ret |-> actuatorResponse,
                    log |-> done.log ]))
    ELSE [self |-> self, ret |-> Null, log |-> <<>>]

(***************************************************************************)
(* ActuatorAdapterManager                                                  *)
(***************************************************************************)
ActuatorFields ==
    { "ventilationActuator", "airPurifierActuator", "ledDisplayActuator",
      "hvacActuator", "humidifierActuator" }

\* ActuatorAdapterManager.locationID
locationID == LocalLocationID

\* _initEnvironmentalActuationTasks
_initEnvironmentalActuationTasks ==
    [ f \in ActuatorFields |->
        CASE f = "ventilationActuator" ->
                 BaseActuatorSimTask(VENTILATION_ACTUATOR_NAME, VENTILATION_ACTUATOR_TYPE)
          [] f = "airPurifierActuator" ->
                 BaseActuatorSimTask(AIR_PURIFIER_ACTUATOR_NAME, AIR_PURIFIER_ACTUATOR_TYPE)
          [] OTHER -> Null ]

\* _initActuatorEmulationTasks, the emulator module loading
_initActuatorEmulationTasks ==
    [ _initEnvironmentalActuationTasks EXCEPT
        !["ledDisplayActuator"] =
            BaseActuatorSimTask(LED_ACTUATOR_NAME, LED_DISPLAY_ACTUATOR_TYPE) ]

\* how the loading and construction of LedDisplayEmulatorTask can end
EmulatorLoads == {"loaded", "ImportError", "Exception"}

\* _initActuatorEmulationTasks with its two except clauses: whatever is
\* raised by the loading, the simulation tasks are initialised instead
loadActuatorEmulationTasks(outcome) ==
    IF outcome = "loaded"
    THEN _initActuatorEmulationTasks
    ELSE _initEnvironmentalActuationTasks

\* ActuatorAdapterManager.__init__
ActuatorAdapterManager(useEmulator) ==
    IF useEmulator THEN _initActuatorEmulationTasks
    ELSE _initEnvironmentalActuationTasks

\* isRequest without the test of the response flag
isRequest_anyCommand(data) == data # Null

\* the first test of sendActuatorCommand: a command, and not a response
isRequest(data) == data # Null /\ ~data.isResponse

\* isForThisDevice with the command's location compared against itself
isForThisDevice_ownLocation(data) == data.locationID = data.locationID

\* the second test: the command is destined for this device
isForThisDevice(data) == data.locationID = locationID

NoActuator == "none"

\* routeTo that hands every command to the ventilation task
routeTo_ventilationOnly(ads, aType) ==
    IF ads["ventilationActuator"] # Null THEN "ventilationActuator" ELSE NoActuator

\* the if/elif chain of sendActuatorCommand: the field whose task gets the
\* command, NoActuator when no branch is taken
routeTo(ads, aType) ==
    IF aType = VENTILATION_ACTUATOR_TYPE /\ ads["ventilationActuator"] # Null
    THEN "ventilationActuator"
    ELSE IF aType = AIR_PURIFIER_ACTUATOR_TYPE /\ ads["airPurifierActuator"] # Null
    THEN "airPurifierActuator"
    ELSE IF aType = LED_DISPLAY_ACTUATOR_TYPE /\ ads["ledDisplayActuator"] # Null
    THEN "ledDisplayActuator"
    ELSE IF aType = HVAC_ACTUATOR_TYPE /\ ads["hvacActuator"] # Null
    THEN "hvacActuator"
    ELSE IF aType = HUMIDIFIER_ACTUATOR_TYPE /\ ads["humidifierActuator"] # Null
    THEN "humidifierActuator"
    ELSE NoActuator

\* ActuatorAdapterManager.sendActuatorCommand
sendActuatorCommand(ads, data) ==
    IF isRequest(data)
    THEN IF isForThisDevice(data)
         THEN Then(routeTo(ads, data.typeID), LAMBDA who :
              IF who # NoActuator
              THEN Then(updateActuator(who, ads[who], data), LAMBDA r :
                   [ adapters |-> [ads EXCEPT ![who] = r.self],
                     ret |-> r.ret,
                     log |-> <<Ev("updateActuator", who, data, r.ret)>> \o r.log ])
              ELSE [adapters |-> ads, ret |-> Null, log |-> <<>>])
         ELSE [adapters |-> ads, ret |-> Null, log |-> <<>>]
    ELSE [adapters |-> ads, ret |-> Null, log |-> <<>>]

(***************************************************************************)
(* SensorData                                                              *)
(***************************************************************************)
\* SensorData.__init__, then setValue and setLocationID
SensorData(typeID, name, loc, value) ==
    [name |-> name, typeID |-> typeID, locationID |-> loc, value |-> value]

CO2_SENSOR_NAME == "CO2Sensor"
TEMP_SENSOR_NAME == "TempSensor"
HUMIDITY_SENSOR_NAME == "HumiditySensor"
PRESSURE_SENSOR_NAME == "PressureSensor"

(***************************************************************************)
(* DeviceDataManager                                                       *)
(***************************************************************************)
\* the thresholds DeviceDataManager.__init__ reads, at their defaults
triggerVentilationCO2Threshold == 1000
triggerVentilationTempThreshold == 26
triggerAirPurifierHumidityThreshold == 60
triggerHvacTempFloor == 18
triggerHvacTempCeiling == 20

\* the flags DeviceDataManager.__init__ and ActuatorAdapterManager.__init__
\* read from the configuration file
Configs ==
    [ handleCO2ChangeOnDevice : BOOLEAN,
      handleTempChangeOnDevice : BOOLEAN,
      enableMqtt : BOOLEAN,
      enableCoap : BOOLEAN,
      useEmulator : BOOLEAN ]

\* members of ResourceNameEnum, as DeviceDataManager names them
CDA_SENSOR_MSG_RESOURCE == "CDA_SENSOR_MSG_RESOURCE"
CDA_ACTUATOR_RESPONSE_RESOURCE == "CDA_ACTUATOR_RESPONSE_RESOURCE"
CDA_SYSTEM_PERF_MSG_RESOURCE == "CDA_SYSTEM_PERF_MSG_RESOURCE"
CDA_SENSOR_DATA_MSG_RESOURCE == "CDA_SENSOR_DATA_MSG_RESOURCE"
CDA_ACTUATOR_RESPONSE_MSG_RESOURCE == "CDA_ACTUATOR_RESPONSE_MSG_RESOURCE"
GDA_MGMT_STATUS_MSG_RESOURCE == "GDA_MGMT_STATUS_MSG_RESOURCE"
GDA_SYSTEM_PERF_MSG_RESOURCE == "GDA_SYSTEM_PERF_MSG_RESOURCE"
NoResource == "None"

\* DeviceDataManager._mapCdaResourceToGda
_mapCdaResourceToGda(cdaResource) ==
    IF cdaResource = CDA_SENSOR_DATA_MSG_RESOURCE THEN GDA_MGMT_STATUS_MSG_RESOURCE
    ELSE IF cdaResource = CDA_SYSTEM_PERF_MSG_RESOURCE THEN GDA_SYSTEM_PERF_MSG_RESOURCE
    ELSE IF cdaResource = CDA_ACTUATOR_RESPONSE_MSG_RESOURCE THEN GDA_MGMT_STATUS_MSG_RESOURCE
    ELSE NoResource

\* the MQTT part of _handleUpstreamTransmission; mqttSuccess is what
\* publishMessage returns
mqttTransmission(c, resourceName, msg, mqttSuccess) ==
    IF c.enableMqtt
    THEN <<Ev("publishMessage", resourceName, msg, Bool(mqttSuccess))>>
    ELSE <<>>

\* a CoAP part that posts under the CDA name when the mapping is None
coapTransmission_unmapped(c, resourceName, msg, coapSuccess) ==
    IF c.enableCoap
    THEN <<Ev("sendPostRequest", resourceName, msg, Bool(coapSuccess))>>
    ELSE <<>>

\* the CoAP part of _handleUpstreamTransmission; coapSuccess is what
\* sendPostRequest returns
coapTransmission(c, resourceName, msg, coapSuccess) ==
    IF c.enableCoap
    THEN LET gdaResourceName == _mapCdaResourceToGda(resourceName) IN
         IF gdaResourceName # NoResource
         THEN <<Ev("sendPostRequest", gdaResourceName, msg, Bool(coapSuccess))>>
         ELSE <<>>
    ELSE <<>>

\* DeviceDataManager._handleUpstreamTransmission : the sends it makes
_handleUpstreamTransmission(c, resourceName, msg, mqttSuccess, coapSuccess) ==
    mqttTransmission(c, resourceName, msg, mqttSuccess)
        \o coapTransmission(c, resourceName, msg, coapSuccess)

\* handleActuatorCommandMessage that hands back the router's result only if
\* there is one, and the command otherwise
handleActuatorCommandMessage_neverNone(ads, data) ==
    IF data # Null
    THEN Then(sendActuatorCommand(ads, data), LAMBDA r :
         [ adapters |-> r.adapters,
           ret |-> IF r.ret # Null THEN r.ret ELSE data,
           log |-> <<Ev("sendActuatorCommand", "actuatorAdapterMgr", data, r.ret)>>
                       \o r.log ])
    ELSE [adapters |-> ads, ret |-> Null, log |-> <<>>]

\* handleActuatorCommandMessage without the test of its argument
handleActuatorCommandMessage_unguarded(ads, data) ==
    Then(sendActuatorCommand(ads, data), LAMBDA r :
        [ adapters |-> r.adapters, ret |-> r.ret,
          log |-> <<Ev("sendActuatorCommand", "actuatorAdapterMgr", data, r.ret)>>
                      \o r.log ])

\* DeviceDataManager.handleActuatorCommandMessage
handleActuatorCommandMessage(ads, data) ==
    IF data # Null
    THEN Then(sendActuatorCommand(ads, data), LAMBDA r :
         [ adapters |-> r.adapters, ret |-> r.ret,
           log |-> <<Ev("sendActuatorCommand", "actuatorAdapterMgr", data, r.ret)>>
                       \o r.log ])
    ELSE [adapters |-> ads, ret |-> Null, log |-> <<>>]

\* ruleCommand that leaves the command's location as constructed
ruleCommand_withoutLocation(typeID, name, data, stateData) ==
    [ ActuatorData(typeID, NOT_SET) EXCEPT
        !.name = name,
        !.command = COMMAND_ON,
        !.value = data.value,
        !.stateData = stateData ]

\* the ActuatorData a rule of _handleSensorDataAnalysis builds
ruleCommand(typeID, name, data, stateData) ==
    [ ActuatorData(typeID, NOT_SET) EXCEPT
        !.locationID = data.locationID,
        !.name = name,
        !.command = COMMAND_ON,
        !.value = data.value,
        !.stateData = stateData ]

\* a rule's call of self.handleActuatorCommandMessage(ad)
dispatch(ads, ad) ==
    Then(handleActuatorCommandMessage(ads, ad), LAMBDA r :
        [ adapters |-> r.adapters,
          log |-> <<Ev("handleActuatorCommandMessage", "self", ad, r.ret)>> \o r.log ])

\* exceeds with the threshold itself counted as exceeding
exceeds_orEqual(value, threshold) == value >= threshold

\* the threshold test of the three rules
exceeds(value, threshold) == value > threshold

\* ruleApplies without the flag
ruleApplies_withoutFlag(c, data, sensorType) == data.typeID = sensorType

\* the gate of the three rules: the flag, and the reading's type
ruleApplies(c, data, sensorType) ==
    c.handleCO2ChangeOnDevice /\ data.typeID = sensorType

\* the CO2 rule with a branch that switches the ventilation off at or
\* below the threshold
co2Rule_offBelow(c, ads, data) ==
    IF ruleApplies(c, data, CO2_SENSOR_TYPE)
    THEN Then([ ruleCommand(VENTILATION_ACTUATOR_TYPE, VENTILATION_ACTUATOR_NAME,
                            data, "CO2 level high - ventilation ON")
                  EXCEPT !.command =
                      IF exceeds(data.value, triggerVentilationCO2Threshold)
                      THEN COMMAND_ON ELSE COMMAND_OFF ],
              LAMBDA ad : dispatch(ads, ad))
    ELSE [adapters |-> ads, log |-> <<>>]

\* _handleSensorDataAnalysis, the CO2 rule
co2Rule(c, ads, data) ==
    IF ruleApplies(c, data, CO2_SENSOR_TYPE)
       /\ exceeds(data.value, triggerVentilationCO2Threshold)
    THEN Then(ruleCommand(VENTILATION_ACTUATOR_TYPE, VENTILATION_ACTUATOR_NAME,
                          data, "CO2 level high - ventilation ON"),
              LAMBDA ad : dispatch(ads, ad))
    ELSE [adapters |-> ads, log |-> <<>>]

\* _handleSensorDataAnalysis, the temperature rule
tempRule(c, ads, data) ==
    IF ruleApplies(c, data, TEMP_SENSOR_TYPE)
       /\ exceeds(data.value, triggerVentilationTempThreshold)
    THEN Then(ruleCommand(VENTILATION_ACTUATOR_TYPE, VENTILATION_ACTUATOR_NAME,
                          data, "Temperature high - ventilation ON"),
              LAMBDA ad : dispatch(ads, ad))
    ELSE [adapters |-> ads, log |-> <<>>]

\* _handleSensorDataAnalysis, the humidity rule
humidityRule(c, ads, data) ==
    IF ruleApplies(c, data, HUMIDITY_SENSOR_TYPE)
       /\ exceeds(data.value, triggerAirPurifierHumidityThreshold)
    THEN Then(ruleCommand(AIR_PURIFIER_ACTUATOR_TYPE, AIR_PURIFIER_ACTUATOR_NAME,
                          data, "Humidity high - air purifier ON"),
              LAMBDA ad : dispatch(ads, ad))
    ELSE [adapters |-> ads, log |-> <<>>]

\* DeviceDataManager._handleSensorDataAnalysis : the three rules in turn
_handleSensorDataAnalysis(c, ads, data) ==
    Then(co2Rule(c, ads, data), LAMBDA r1 :
    Then(tempRule(c, r1.adapters, data), LAMBDA r2 :
    Then(humidityRule(c, r2.adapters, data), LAMBDA r3 :
        [adapters |-> r3.adapters, log |-> r1.log \o r2.log \o r3.log])))

\* cachePut that keeps the entry a name already has
cachePut_keepFirst(cache, data) ==
    IF data.name # "" /\ cache[data.name] = Null
    THEN [cache EXCEPT ![data.name] = data]
    ELSE cache

\* the cache write of handleSensorMessage and of handleActuatorCommandResponse
cachePut(cache, data) ==
    IF data.name # "" THEN [cache EXCEPT ![data.name] = data] ELSE cache

\* handleSensorMessage that leaves the upstream transmission for later
handleSensorMessage_sendDeferred(c, ads, cache, data, mqttSuccess, coapSuccess) ==
    IF data # Null
    THEN Then(_handleSensorDataAnalysis(c, ads, data), LAMBDA r :
         [ adapters |-> r.adapters,
           sensorCache |-> cachePut(cache, data),
           ret |-> Bool(TRUE),
           log |-> r.log ])
    ELSE [adapters |-> ads, sensorCache |-> cache, ret |-> Bool(FALSE), log |-> <<>>]

\* DeviceDataManager.handleSensorMessage
handleSensorMessage(c, ads, cache, data, mqttSuccess, coapSuccess) ==
    IF data # Null
    THEN Then(_handleSensorDataAnalysis(c, ads, data), LAMBDA r :
         [ adapters |-> r.adapters,
           sensorCache |-> cachePut(cache, data),
           ret |-> Bool(TRUE),
           log |-> r.log \o _handleUpstreamTransmission(c, CDA_SENSOR_MSG_RESOURCE,
                                                        data, mqttSuccess, coapSuccess) ])
    ELSE [adapters |-> ads, sensorCache |-> cache, ret |-> Bool(FALSE), log |-> <<>>]

\* DeviceDataManager.getLatestSensorDataFromCache
getLatestSensorDataFromCache(cache, name) ==
    IF name # "" /\ cache[name] # Null THEN cache[name] ELSE Null

\* DeviceDataManager.handleActuatorCommandResponse
handleActuatorCommandResponse(c, cache, data, mqttSuccess, coapSuccess) ==
    IF data # Null
    THEN [ actuatorCache |-> cachePut(cache, data),
           ret |-> Bool(TRUE),
           log |-> _handleUpstreamTransmission(c, CDA_ACTUATOR_RESPONSE_RESOURCE,
                                               data, mqttSuccess, coapSuccess) ]
    ELSE [actuatorCache |-> cache, ret |-> Bool(FALSE), log |-> <<>>]

\* DeviceDataManager.getLatestActuatorDataResponseFromCache
getLatestActuatorDataResponseFromCache(cache, name) ==
    IF name # "" /\ cache[name] # Null THEN cache[name] ELSE Null

\* an inbound payload: EmptyMsg is the empty string; a payload of kind
\* "json" is the JSON text of the ActuatorData fields it carries; one of kind
\* "undecodable" makes the decoder return None, one of kind "raises" makes
\* it raise
EmptyMsg == [kind |-> "empty"]

\* DataUtil.jsonToActuatorData : a fresh ActuatorData filled from the fields
\* of the JSON text; `raised` tells that it raised instead of returning
jsonToActuatorData(msg) ==
    IF msg.kind = "json"
    THEN [ raised |-> FALSE,
           value |-> updateData(ActuatorData(DEFAULT_ACTUATOR_TYPE, NOT_SET),
                                msg.fields) ]
    ELSE IF msg.kind = "raises"
    THEN [raised |-> TRUE, value |-> Null]
    ELSE [raised |-> FALSE, value |-> Null]

\* decoded that takes any returned value for a command
decoded_anyValue(d) == ~d.raised

\* the decoder returned, and returned an ActuatorData
decoded(d) == ~d.raised /\ d.value # Null

\* DeviceDataManager._handleIncomingDataAnalysis : one decode inside a try
\* whose except clause logs; the command decoded is handed to
\* handleActuatorCommandMessage
_handleIncomingDataAnalysis(ads, msg) ==
    Then(jsonToActuatorData(msg), LAMBDA d :
        IF decoded(d)
        THEN Then(dispatch(ads, d.value), LAMBDA r :
                 [ adapters |-> r.adapters,
                   log |-> <<Ev("jsonToActuatorData", "dataUtil", msg, d.value)>>
                               \o r.log ])
        ELSE [ adapters |-> ads,
               log |-> <<Ev("jsonToActuatorData", "dataUtil", msg, d.value)>> ])

\* handleIncomingMessage that answers whether a task applied the command
handleIncomingMessage_resultOfDispatch(ads, msg) ==
    IF msg # Null /\ msg # EmptyMsg
    THEN Then(_handleIncomingDataAnalysis(ads, msg), LAMBDA r :
             [ adapters |-> r.adapters,
               ret |-> Bool(r.adapters # ads),
               log |-> r.log ])
    ELSE [adapters |-> ads, ret |-> Bool(FALSE), log |-> <<>>]

\* DeviceDataManager.handleIncomingMessage ; the resource it is given is
\* only logged
handleIncomingMessage(ads, msg) ==
    IF msg # Null /\ msg # EmptyMsg
    THEN Then(_handleIncomingDataAnalysis(ads, msg), LAMBDA r :
             [adapters |-> r.adapters, ret |-> Bool(TRUE), log |-> r.log])
    ELSE [adapters |-> ads, ret |-> Bool(FALSE), log |-> <<>>]

(***************************************************************************)
(* The inputs the handlers are driven with.                                *)
(***************************************************************************)
\* the name a sender gives the command for an actuator type
ActuatorNameOf(typeID) ==
    CASE typeID = VENTILATION_ACTUATOR_TYPE -> VENTILATION_ACTUATOR_NAME
      [] typeID = AIR_PURIFIER_ACTUATOR_TYPE -> AIR_PURIFIER_ACTUATOR_NAME
      [] typeID = LED_DISPLAY_ACTUATOR_TYPE -> LED_ACTUATOR_NAME
      [] OTHER -> NOT_SET

\* ActuatorData instances as a caller builds them
CommandsOf(types, locs, cmds, vals, resps) ==
    { [ ActuatorData(t, ActuatorNameOf(t)) EXCEPT
          !.locationID = loc, !.command = cmd, !.value = val, !.isResponse = resp ] :
      t \in types, loc \in locs, cmd \in cmds, val \in vals, resp \in resps }

\* handed to updateActuator of a task: commands of the two simulated
\* actuators' types, every command code and value, requests and responses
TaskCommands ==
    CommandsOf({VENTILATION_ACTUATOR_TYPE, AIR_PURIFIER_ACTUATOR_TYPE},
               {LocalLocationID}, 0..MaxCommandCode, 0..MaxCmdValue, BOOLEAN)

\* the requests among them, each without and with state data
AnnotatedTaskCommands ==
    { [c EXCEPT !.stateData = sd] :
        c \in {t \in TaskCommands : ~t.isResponse}, sd \in {"", "cool down"} }

\* handed to sendActuatorCommand and handleActuatorCommandMessage: commands
\* for a type that always has a task, for one that has a task on an
\* emulating device only and for one that never has, for this device and for
\* another, requests and responses
RouterCommands ==
    CommandsOf({VENTILATION_ACTUATOR_TYPE, LED_DISPLAY_ACTUATOR_TYPE, HVAC_ACTUATOR_TYPE},
               LocationIDs, {COMMAND_OFF, COMMAND_ON}, 0..MaxCmdValue, BOOLEAN)

\* the values a sensor of each type reports: around the thresholds
SensorValues(typeID) ==
    CASE typeID = CO2_SENSOR_TYPE -> {1000, 1200}
      [] typeID = TEMP_SENSOR_TYPE -> {17, 19, 26, 27}
      [] typeID = HUMIDITY_SENSOR_TYPE -> {60, 61}
      [] typeID = PRESSURE_SENSOR_TYPE -> {1013}

SensorNameOf(typeID) ==
    CASE typeID = CO2_SENSOR_TYPE -> CO2_SENSOR_NAME
      [] typeID = TEMP_SENSOR_TYPE -> TEMP_SENSOR_NAME
      [] typeID = HUMIDITY_SENSOR_TYPE -> HUMIDITY_SENSOR_NAME
      [] typeID = PRESSURE_SENSOR_TYPE -> PRESSURE_SENSOR_NAME

SensorTypes ==
    {CO2_SENSOR_TYPE, TEMP_SENSOR_TYPE, HUMIDITY_SENSOR_TYPE, PRESSURE_SENSOR_TYPE}

SensorNames == {SensorNameOf(t) : t \in SensorTypes}

\* the SensorData instances handed to handleSensorMessage: the four sensors'
\* readings at this device's location, and CO2 readings without a name at
\* this and at another location
Readings ==
    UNION { { SensorData(t, SensorNameOf(t), LocalLocationID, v) :
                v \in SensorValues(t) } : t \in SensorTypes }
    \cup { SensorData(CO2_SENSOR_TYPE, "", loc, 1200) : loc \in LocationIDs }

ActuatorNames == {ActuatorNameOf(t) : t \in ActuatorTypes}

\* the payloads handed to handleIncomingMessage: the JSON text of every
\* command the router is driven with, two payloads that do not decode, the
\* empty payload and None
Payloads ==
    { [kind |-> "json", fields |-> c] : c \in RouterCommands }
    \cup { [kind |-> "undecodable"], [kind |-> "raises"], EmptyMsg, Null }

(***************************************************************************)
(* The polling managers and their schedulers.                              *)
(***************************************************************************)
sensorAdapterMgr == "sensorAdapterMgr"
sysPerfMgr == "sysPerfMgr"
Managers == {sensorAdapterMgr, sysPerfMgr}

\* SensorAdapterManager.__init__ : the options of its add_job call
max_instances == 2
coalesce == TRUE

\* APScheduler's job defaults, which SystemPerformanceManager.startManager
\* leaves in force
DEFAULT_MAX_INSTANCES == 1
DEFAULT_COALESCE == TRUE

\* apscheduler BackgroundScheduler() : a stopped scheduler without a job,
\* whose executor's pool accepts work; `instances` counts the executions of
\* the job in progress, `pending` the firings queued behind them
BackgroundScheduler ==
    [ running |-> FALSE, hasJob |-> FALSE, poolOpen |-> TRUE,
      instances |-> 0, pending |-> 0,
      maxInstances |-> DEFAULT_MAX_INSTANCES, coalesce |-> DEFAULT_COALESCE ]

\* apscheduler BaseScheduler.add_job
add_job(s, maxInstances, coalesced) ==
    [s EXCEPT !.hasJob = TRUE, !.maxInstances = maxInstances, !.coalesce = coalesced]

\* apscheduler BaseScheduler.running
running(s) == s.running

\* apscheduler BaseScheduler.start : raises on a running scheduler
start(s) ==
    IF s.running
    THEN [raised |-> TRUE, scheduler |-> s]
    ELSE [raised |-> FALSE, scheduler |-> [s EXCEPT !.running = TRUE]]

\* apscheduler BaseScheduler.shutdown, up to the point where it waits for
\* the executions in progress: raises on a scheduler that is not running,
\* otherwise no firing is processed any more
shutdown(s) ==
    IF s.running
    THEN [raised |-> FALSE, scheduler |-> [s EXCEPT !.running = FALSE]]
    ELSE [raised |-> TRUE, scheduler |-> s]

\* the executions in progress are over and BaseScheduler.shutdown returns:
\* the pool is closed, the job store is emptied
shutdownReturns(s) == [s EXCEPT !.poolOpen = FALSE, !.hasJob = FALSE]

\* apscheduler BaseExecutor.submit_job : a firing of a job that has
\* max_instances executions in progress is refused (and skipped by the
\* scheduler), any other starts an execution
submit_job(s) ==
    IF s.instances >= s.maxInstances
    THEN [submitted |-> FALSE, scheduler |-> s]
    ELSE [submitted |-> TRUE, scheduler |-> [s EXCEPT !.instances = @ + 1]]

\* apscheduler run_job and the executor's completion callback: whether the
\* job function returned or raised, the execution is over and the scheduler
\* goes on
run_job(s, raised) == [s EXCEPT !.instances = @ - 1]

\* the state of a polling manager: its scheduler field, SystemPerformance-
\* Manager's isStarted flag, and whether its stopManager is waiting inside
\* shutdown; `latePass` tells that a pass of the scheduler's thread over its
\* jobs was under way when shutdown was called and has not submitted yet;
\* `stopped` tells that stopManager has returned since startManager was
\* called last, `failed` that a tick has raised while the scheduler was
\* running and stopManager has not been called since
ManagerState(scheduler) ==
    [ scheduler |-> scheduler, isStarted |-> FALSE, stopping |-> FALSE,
      latePass |-> FALSE, stopped |-> FALSE, failed |-> FALSE ]

\* SensorAdapterManager.__init__ that lets a third execution of its job start
Manager_threeInstances(m) ==
    IF m = sensorAdapterMgr
    THEN ManagerState(add_job(BackgroundScheduler, 3, TRUE))
    ELSE ManagerState(Null)

\* SensorAdapterManager.__init__ creates the scheduler and adds the job;
\* SystemPerformanceManager.__init__ leaves the scheduler None
Manager(m) ==
    IF m = sensorAdapterMgr
    THEN ManagerState(add_job(BackgroundScheduler, max_instances, coalesce))
    ELSE ManagerState(Null)

\* SensorAdapterManager.startManager
SensorAdapterManager_startManager(self) ==
    IF ~running(self.scheduler)
    THEN [ self |-> [self EXCEPT !.scheduler = start(self.scheduler).scheduler],
           ret |-> Bool(TRUE) ]
    ELSE [self |-> self, ret |-> Bool(FALSE)]

\* SensorAdapterManager.stopManager that answers True whatever shutdown does
SensorAdapterManager_stopManager_alwaysTrue(self) ==
    IF shutdown(self.scheduler).raised
    THEN [self |-> self, ret |-> Bool(TRUE), waits |-> FALSE]
    ELSE [ self |-> [self EXCEPT !.scheduler = shutdown(self.scheduler).scheduler,
                                 !.stopping = TRUE],
           ret |-> Bool(TRUE), waits |-> TRUE ]

\* SensorAdapterManager.stopManager that answers True without shutting the
\* scheduler down
SensorAdapterManager_stopManager_withoutShutdown(self) ==
    [self |-> self, ret |-> Bool(TRUE), waits |-> FALSE]

\* SensorAdapterManager.stopManager : the call of shutdown; if it raises the
\* handler returns False at once, otherwise it waits and will return `ret`
SensorAdapterManager_stopManager(self) ==
    IF shutdown(self.scheduler).raised
    THEN [self |-> self, ret |-> Bool(FALSE), waits |-> FALSE]
    ELSE [ self |-> [self EXCEPT !.scheduler = shutdown(self.scheduler).scheduler,
                                 !.stopping = TRUE],
           ret |-> Bool(TRUE), waits |-> TRUE ]

\* SystemPerformanceManager.startManager : a new scheduler with the job at
\* the library's defaults; returns nothing
SystemPerformanceManager_startManager(self) ==
    IF ~self.isStarted
    THEN [ self |-> [self EXCEPT
                       !.scheduler = start(add_job(BackgroundScheduler,
                                                   DEFAULT_MAX_INSTANCES,
                                                   DEFAULT_COALESCE)).scheduler,
                       !.isStarted = TRUE],
           ret |-> Null ]
    ELSE [self |-> self, ret |-> Null]

\* SystemPerformanceManager.stopManager : the call of shutdown; returns
\* nothing; isStarted is cleared when shutdown has returned
SystemPerformanceManager_stopManager(self) ==
    IF self.isStarted /\ self.scheduler # Null
    THEN [ self |-> [self EXCEPT !.scheduler = shutdown(self.scheduler).scheduler,
                                 !.stopping = TRUE],
           ret |-> Null, waits |-> TRUE ]
    ELSE [self |-> [self EXCEPT !.isStarted = FALSE], ret |-> Null, waits |-> FALSE]

startManager(m, self) ==
    IF m = sensorAdapterMgr
    THEN SensorAdapterManager_startManager(self)
    ELSE SystemPerformanceManager_startManager(self)

stopManager(m, self) ==
    IF m = sensorAdapterMgr
    THEN SensorAdapterManager_stopManager(self)
    ELSE SystemPerformanceManager_stopManager(self)

\* stopManager's return once shutdown has returned: SensorAdapterManager
\* answers True, SystemPerformanceManager clears isStarted
stopManagerReturns(m, self) ==
    [ self |-> [self EXCEPT !.scheduler = shutdownReturns(self.scheduler),
                            !.stopping = FALSE, !.latePass = FALSE,
                            !.isStarted = FALSE],
      ret |-> IF m = sensorAdapterMgr THEN Bool(TRUE) ELSE Null ]

\* what goes wrong in a tick: nothing, the generation of the readings, or
\* the hub's handling of the k-th reading, which then raises on entry
NoFault == [at |-> "none", k |-> 0]
SensorFaults ==
    {NoFault, [at |-> "generateTelemetry", k |-> 0]}
    \cup {[at |-> "handleSensorMessage", k |-> i] : i \in 1..4}
PerfFaults ==
    {NoFault, [at |-> "getTelemetryValue", k |-> 0],
     [at |-> "handleSystemPerformanceMessage", k |-> 0]}

\* SensorAdapterManager.handleTelemetry : the readings of one tick, in the
\* order in which they are handed to the hub
TickReadings ==
    << SensorData(HUMIDITY_SENSOR_TYPE, HUMIDITY_SENSOR_NAME, LocalLocationID, 61),
       SensorData(PRESSURE_SENSOR_TYPE, PRESSURE_SENSOR_NAME, LocalLocationID, 1013),
       SensorData(TEMP_SENSOR_TYPE, TEMP_SENSOR_NAME, LocalLocationID, 27),
       SensorData(CO2_SENSOR_TYPE, CO2_SENSOR_NAME, LocalLocationID, 1200) >>

\* SensorAdapterManager.handleTelemetry : the first n readings handed to
\* the hub's handleSensorMessage, one after the other
RECURSIVE deliver(_, _, _, _, _)
deliver(c, ads, cache, readings, n) ==
    IF n = 0
    THEN [adapters |-> ads, sensorCache |-> cache, log |-> <<>>]
    ELSE Then(deliver(c, ads, cache, readings, n - 1), LAMBDA p :
         Then(handleSensorMessage(c, p.adapters, p.sensorCache, readings[n], TRUE, TRUE),
              LAMBDA r :
         [ adapters |-> r.adapters, sensorCache |-> r.sensorCache,
           log |-> p.log \o <<Ev("handleSensorMessage", sensorAdapterMgr,
                                 readings[n], r.ret)>> \o r.log ]))

\* the number of readings a tick hands to the hub before the fault ends it
delivered(fault) ==
    IF fault.at = "generateTelemetry" THEN 0
    ELSE IF fault.at = "handleSensorMessage" THEN fault.k - 1
    ELSE 4

\* SensorAdapterManager.handleTelemetry without its try/except
SensorAdapterManager_handleTelemetry_uncaught(c, ads, cache, fault) ==
    Then(deliver(c, ads, cache, TickReadings, delivered(fault)), LAMBDA r :
        [ adapters |-> r.adapters, sensorCache |-> r.sensorCache,
          raised |-> fault.at # "none", log |-> r.log ])

\* SensorAdapterManager.handleTelemetry : whatever is raised in the tick is
\* caught and logged
SensorAdapterManager_handleTelemetry(c, ads, cache, fault) ==
    Then(deliver(c, ads, cache, TickReadings, delivered(fault)), LAMBDA r :
        [ adapters |-> r.adapters, sensorCache |-> r.sensorCache,
          raised |-> FALSE,
          log |-> r.log \o (IF fault.at # "none"
                            THEN <<Ev("logging.error", sensorAdapterMgr, fault, Null)>>
                            ELSE <<>>) ])

\* the readings of TickReadings handed to the hub, recorded in `handled`
handledAfter(h, n) ==
    [ x \in DOMAIN h |->
        IF \E i \in 1..n : TickReadings[i].name = x
        THEN TickReadings[CHOOSE i \in 1..n : TickReadings[i].name = x]
        ELSE h[x] ]

\* a setter that stores the number as it is given
clamp_asGiven(v) == v

\* SystemPerformanceData's setters: None is ignored elsewhere, a number is
\* clamped to 0..100
clamp(v) == IF v < 0 THEN 0 ELSE IF v > 100 THEN 100 ELSE v

CPU_UTIL_NAME == "CPU_UTIL_NAME"
PerfNames == {CPU_UTIL_NAME}

\* SystemPerformanceData(), then setName, setCpuUtilization and
\* setMemoryUtilization as SystemPerformanceManager.handleTelemetry calls them
SystemPerformanceData(cpuUtil, memUtil) ==
    [ name |-> CPU_UTIL_NAME, cpuUtil |-> clamp(cpuUtil),
      memUtil |-> clamp(memUtil), diskUtil |-> DEFAULT_VAL ]

\* DeviceDataManager.handleSystemPerformanceMessage
handleSystemPerformanceMessage(c, cache, data, mqttSuccess, coapSuccess) ==
    IF data # Null
    THEN [ perfCache |-> cachePut(cache, data),
           ret |-> Bool(TRUE),
           log |-> _handleUpstreamTransmission(c, CDA_SYSTEM_PERF_MSG_RESOURCE,
                                               data, mqttSuccess, coapSuccess) ]
    ELSE [perfCache |-> cache, ret |-> Bool(FALSE), log |-> <<>>]

\* what the two utilisation tasks report in a tick
CpuUtilValues == {35}
MemUtilValues == {70}

\* SystemPerformanceManager.handleTelemetry : nothing is caught here, what
\* is raised leaves the job function
SystemPerformanceManager_handleTelemetry(c, cache, cpuUtil, memUtil, fault) ==
    IF fault.at = "getTelemetryValue"
    THEN [perfCache |-> cache, raised |-> TRUE, log |-> <<>>]
    ELSE IF fault.at = "handleSystemPerformanceMessage"
    THEN [ perfCache |-> cache, raised |-> TRUE,
           log |-> <<Ev("handleSystemPerformanceMessage", sysPerfMgr,
                        SystemPerformanceData(cpuUtil, memUtil), Null)>> ]
    ELSE Then(handleSystemPerformanceMessage(c, cache,
                  SystemPerformanceData(cpuUtil, memUtil), TRUE, TRUE), LAMBDA r :
         [ perfCache |-> r.perfCache, raised |-> FALSE,
           log |-> <<Ev("handleSystemPerformanceMessage", sysPerfMgr,
                        SystemPerformanceData(cpuUtil, memUtil), r.ret)>> \o r.log ])

(***************************************************************************)
(* BaseSensorSimTask and CO2SensorSimTask                                  *)
(***************************************************************************)
\* the data sets handed to a sensor task hold at most MaxDataSetLen entries
MaxDataSetLen == 3

\* BaseSensorSimTask.DEFAULT_MIN_VAL and DEFAULT_MAX_VAL
DEFAULT_MIN_VAL == 0
DEFAULT_MAX_VAL == 1000

DEFAULT_SENSOR_TYPE == "DEFAULT_SENSOR_TYPE"

\* CO2SensorSimTask.MIN_CO2_LEVEL and HIGH_CO2_LEVEL
MIN_CO2_LEVEL == 400
HIGH_CO2_LEVEL == 1200

\* a SensorDataSet holding the given entries
SensorDataSet(entries) == [entries |-> entries]

\* SensorDataSet.getDataEntryCount
getDataEntryCount(dataSet) == Len(dataSet.entries)

\* SensorDataSet.getDataEntry : the entry at a zero-based index
getDataEntry(dataSet, index) == dataSet.entries[index + 1]

\* BaseSensorSimTask.__init__ ; dataSet is None or a SensorDataSet
BaseSensorSimTask(name, typeID, dataSet, minVal, maxVal) ==
    [ name |-> name, typeID |-> typeID, dataSet |-> dataSet,
      dataSetIndex |-> 0, useRandomizer |-> (dataSet = Null),
      latestSensorData |-> Null, minVal |-> minVal, maxVal |-> maxVal ]

\* CO2SensorSimTask.__init__ with a data set
CO2SensorSimTask(dataSet) ==
    BaseSensorSimTask(CO2_SENSOR_NAME, CO2_SENSOR_TYPE, dataSet,
                      MIN_CO2_LEVEL, HIGH_CO2_LEVEL)

\* the index that stays where it is
nextIndex_stuck(index, count) == index

\* BaseSensorSimTask.generateTelemetry : the index after a lookup
nextIndex(index, count) == IF index + 1 >= count THEN 0 ELSE index + 1

\* BaseSensorSimTask.generateTelemetry ; uniform is what random.uniform
\* answers if it is asked
generateTelemetry(self, uniform) ==
    \* the reading carries the value drawn or looked up; its location is
    \* not set here
    Then(IF self.useRandomizer THEN uniform
         ELSE getDataEntry(self.dataSet, self.dataSetIndex), LAMBDA sensorVal :
    Then(SensorData(self.typeID, self.name, NOT_SET, sensorVal), LAMBDA sensorData :
        [ self |-> [self EXCEPT
                      !.dataSetIndex =
                          IF self.useRandomizer THEN @
                          ELSE nextIndex(@, getDataEntryCount(self.dataSet)),
                      !.latestSensorData = sensorData],
          ret |-> sensorData,
          log |-> <<Ev("generateTelemetry", self.name, Null, sensorData)>> ]))

\* the test of the getters that always asks for a new reading
hasReading_never(self) == FALSE

\* BaseSensorSimTask.getTelemetryValue and getLatestTelemetry : the test
\* `if not self.latestSensorData`
hasReading(self) == self.latestSensorData # Null

\* BaseSensorSimTask.getLatestTelemetry
getLatestTelemetry(self, uniform) ==
    IF ~hasReading(self)
    THEN Then(generateTelemetry(self, uniform), LAMBDA r :
         [self |-> r.self, ret |-> r.self.latestSensorData, log |-> r.log])
    ELSE [self |-> self, ret |-> self.latestSensorData, log |-> <<>>]

\* BaseSensorSimTask.getTelemetryValue ; the number is boxed to stand next
\* to the other return values
getTelemetryValue(self, uniform) ==
    IF ~hasReading(self)
    THEN Then(generateTelemetry(self, uniform), LAMBDA r :
         [ self |-> r.self, ret |-> [value |-> r.self.latestSensorData.value],
           log |-> r.log ])
    ELSE [ self |-> self, ret |-> [value |-> self.latestSensorData.value],
           log |-> <<>> ]

\* the data sets a sensor task is built with: up to MaxDataSetLen entries,
\* below, within and above the range of the CO2 sensor
DataEntries == {300, 800, 1500}
DataSets ==
    { SensorDataSet(entries) :
        entries \in UNION { [1..n -> DataEntries] : n \in 1..MaxDataSetLen } }

\* the sensor tasks: the CO2 sensor with each data set, and a task without
\* a data set, which draws its values
SensorTasks ==
    { CO2SensorSimTask(dataSet) : dataSet \in DataSets }
    \cup { BaseSensorSimTask(NOT_SET, DEFAULT_SENSOR_TYPE, Null,
                             DEFAULT_MIN_VAL, DEFAULT_MAX_VAL) }

\* what random.uniform(minVal, maxVal) answers: the two ends and the middle
uniformValues(self) ==
    {self.minVal, (self.minVal + self.maxVal) \div 2, self.maxVal}

\* generateTelemetry is called at most MaxCalls times
MaxCalls == MaxDataSetLen + 2

(***************************************************************************)
(* The state after construction.                                           *)
(***************************************************************************)
NoCall == [op |-> "none", arg |-> Null, ret |-> Null, log |-> <<>>]

InitDevice ==
    /\ cfg \in Configs
    /\ adapters = ActuatorAdapterManager(cfg.useEmulator)
    /\ sensorCache = [n \in SensorNames |-> Null]
    /\ actuatorCache = [n \in ActuatorNames |-> Null]
    /\ last = NoCall
    /\ repeated = FALSE
    /\ handled = [n \in SensorNames \cup {""} |-> Null]
    /\ sched = [m \in Managers |-> Manager(m)]
    /\ perfCache = [n \in PerfNames |-> Null]

\* SystemPerformanceData.__init__ : the three utilisations of a fresh
\* instance
NewSystemPerformanceData ==
    [cpuUtil |-> DEFAULT_VAL, diskUtil |-> DEFAULT_VAL, memUtil |-> DEFAULT_VAL]

\* DeviceDataManager.__init__ : no call of startManager or stopManager is
\* under way, the MQTT client is neither connected nor subscribed
DeviceDataManager ==
    [pc |-> "idle", at |-> 0, mqttConnected |-> FALSE, mqttSubscribed |-> FALSE]

\* the two threads, neither of them inside a call
Threads == {1, 2}
NoThread == [pc |-> "idle", arg |-> Null, held |-> Null, ret |-> Null]
NoThreads == [t \in Threads |-> NoThread]

\* main() before its try block: no ConstrainedDeviceApp yet; runForever is
\* the flag main() reads from the configuration, stopCode the code handed to
\* stopApp, leftBy the way main() left its try block, exitCode the status
\* the process ended with
Main(runForever) ==
    [ pc |-> "main", cda |-> FALSE, isStarted |-> FALSE,
      runForever |-> runForever, stopCode |-> Null, leftBy |-> "none",
      exitCode |-> Null ]

\* at most MaxTicks executions of the sensor job are followed
MaxTicks == 3

\* no execution of the sensor job has started
NoTicks ==
    [ pos |-> [t \in 1..MaxTicks |-> 0],
      newest |-> [n \in SensorNames |-> 0] ]

\* the device with a CO2 sensor task on which nothing has been called
Init ==
    /\ InitDevice
    /\ sensorTask = CO2SensorSimTask(SensorDataSet(<<800>>))
    /\ generated = 0
    /\ app = Main(FALSE)
    /\ flight = NoTicks
    /\ perfData = NewSystemPerformanceData
    /\ hub = DeviceDataManager
    /\ threads = NoThreads

\* the updateActuator calls among a handler's calls
UpdateCalls(l) == Calls(l.log, "updateActuator")

\* the side effects among a handler's calls
SideEffects(l) ==
    SelectSeq(l.log, LAMBDA e : e.ev \in {"_activateActuator", "_deactivateActuator"})

\* the handler call `l` follows the handler call `before` and repeats its
\* updateActuator call: same task, type-matching, same (command, value)
Repeats(before, l) ==
    /\ Len(UpdateCalls(before)) = 1
    /\ Len(UpdateCalls(l)) = 1
    /\ LET e1 == UpdateCalls(before)[1]
           e2 == UpdateCalls(l)[1]
       IN  /\ e1.who = e2.who
           /\ e1.data # Null /\ e2.data # Null
           /\ e1.data.typeID = e2.data.typeID
           /\ e1.data.typeID = adapters[e1.who].typeID
           /\ e1.data.command = e2.data.command
           /\ e1.data.value = e2.data.value

(***************************************************************************)
(* The operations.                                                         *)
(***************************************************************************)
\* a direct call of updateActuator on the task held in field f
UpdateActuator(f, data) ==
    /\ adapters[f] # Null
    /\ \E r \in {updateActuator(f, adapters[f], data)} :
       \E call \in {[ op |-> "updateActuator", arg |-> data, ret |-> r.ret,
                     log |-> <<Ev("updateActuator", f, data, r.ret)>> \o r.log ]} :
           /\ adapters' = [adapters EXCEPT ![f] = r.self]
           /\ last' = call
           /\ repeated' = Repeats(last, call)
    /\ UNCHANGED <<simVars, cfg, sensorCache, actuatorCache, handled, sched, perfCache>>

\* a direct call of the router
SendActuatorCommand(data) ==
    /\ \E r \in {sendActuatorCommand(adapters, data)} :
       \E call \in {[ op |-> "sendActuatorCommand", arg |-> data, ret |-> r.ret,
                     log |-> <<Ev("sendActuatorCommand", "actuatorAdapterMgr",
                                  data, r.ret)>> \o r.log ]} :
           /\ adapters' = r.adapters
           /\ last' = call
           /\ repeated' = Repeats(last, call)
    /\ UNCHANGED <<simVars, cfg, sensorCache, actuatorCache, handled, sched, perfCache>>

\* a call of the hub's command handler, by a connector or a test
HandleActuatorCommandMessage(data) ==
    /\ \E r \in {handleActuatorCommandMessage(adapters, data)} :
       \E call \in {[ op |-> "handleActuatorCommandMessage", arg |-> data,
                     ret |-> r.ret,
                     log |-> <<Ev("handleActuatorCommandMessage", "caller",
                                  data, r.ret)>> \o r.log ]} :
           /\ adapters' = r.adapters
           /\ last' = call
           /\ repeated' = Repeats(last, call)
    /\ UNCHANGED <<simVars, cfg, sensorCache, actuatorCache, handled, sched, perfCache>>

\* a call of the hub's sensor handler; the two booleans are what the MQTT
\* and the CoAP client answer if they are asked to send
HandleSensorMessage(data, mqttSuccess, coapSuccess) ==
    /\ \E r \in {handleSensorMessage(cfg, adapters, sensorCache, data,
                                    mqttSuccess, coapSuccess)} :
       \E call \in {[ op |-> "handleSensorMessage", arg |-> data, ret |-> r.ret,
                     log |-> <<Ev("handleSensorMessage", "caller", data, r.ret)>>
                                 \o r.log ]} :
           /\ adapters' = r.adapters
           /\ sensorCache' = r.sensorCache
           /\ last' = call
           /\ repeated' = Repeats(last, call)
    /\ handled' = IF data # Null THEN [handled EXCEPT ![data.name] = data] ELSE handled
    /\ UNCHANGED <<simVars, cfg, actuatorCache, sched, perfCache>>

\* a call of the hub's inbound message handler, by a connector
HandleIncomingMessage(msg) ==
    /\ \E r \in {handleIncomingMessage(adapters, msg)} :
       \E call \in {[ op |-> "handleIncomingMessage", arg |-> msg, ret |-> r.ret,
                     log |-> <<Ev("handleIncomingMessage", "caller", msg, r.ret)>>
                                 \o r.log ]} :
           /\ adapters' = r.adapters
           /\ last' = call
           /\ repeated' = Repeats(last, call)
    /\ UNCHANGED <<simVars, cfg, sensorCache, actuatorCache, handled, sched, perfCache>>

\* a call of the hub's response handler
HandleActuatorCommandResponse(data, mqttSuccess, coapSuccess) ==
    /\ \E r \in {handleActuatorCommandResponse(cfg, actuatorCache, data,
                                              mqttSuccess, coapSuccess)} :
       \E call \in {[ op |-> "handleActuatorCommandResponse", arg |-> data,
                     ret |-> r.ret,
                     log |-> <<Ev("handleActuatorCommandResponse", "caller",
                                  data, r.ret)>> \o r.log ]} :
           /\ actuatorCache' = r.actuatorCache
           /\ last' = call
           /\ repeated' = Repeats(last, call)
    /\ UNCHANGED <<simVars, cfg, adapters, sensorCache, handled, sched, perfCache>>

(***************************************************************************)
(* Spec: the actuator tasks of a simulating device, driven by direct calls *)
(* of updateActuator.                                                      *)
(***************************************************************************)
HubIdle ==
    /\ ~cfg.handleCO2ChangeOnDevice /\ ~cfg.handleTempChangeOnDevice
    /\ ~cfg.enableMqtt /\ ~cfg.enableCoap

InitTasks == Init /\ HubIdle /\ ~cfg.useEmulator

UpdateActuatorStep ==
    \E f \in ActuatorFields, data \in TaskCommands \cup {Null} : UpdateActuator(f, data)

Next == UpdateActuatorStep

Spec == InitTasks /\ [][Next]_vars

(***************************************************************************)
(* SpecResponses: the same tasks, driven by commands that carry state data *)
(* as well.                                                                *)
(***************************************************************************)
UpdateActuatorAnnotatedStep ==
    \E f \in ActuatorFields, data \in AnnotatedTaskCommands : UpdateActuator(f, data)

NextResponses == UpdateActuatorAnnotatedStep

SpecResponses == InitTasks /\ [][NextResponses]_vars

(***************************************************************************)
(* SpecRouter: the router and the hub's command handler, driven by direct  *)
(* calls, on a simulating and on an emulating device.                      *)
(***************************************************************************)
InitRouter == Init /\ HubIdle

SendActuatorCommandStep ==
    \E data \in RouterCommands \cup {Null} : SendActuatorCommand(data)

HandleActuatorCommandMessageStep ==
    \E data \in RouterCommands \cup {Null} : HandleActuatorCommandMessage(data)

NextRouter ==
    \/ SendActuatorCommandStep
    \/ HandleActuatorCommandMessageStep

SpecRouter == InitRouter /\ [][NextRouter]_vars

(***************************************************************************)
(* SpecHub: the hub of a simulating device driven by sensor readings,      *)
(* under every setting of the rule flags, without upstream channels.       *)
(***************************************************************************)
InitHub == Init /\ ~cfg.useEmulator /\ ~cfg.enableMqtt /\ ~cfg.enableCoap

\* what a client answers matters only if the client exists
Answers(enabled) == IF enabled THEN BOOLEAN ELSE {FALSE}

HandleSensorMessageStep ==
    \E data \in Readings \cup {Null},
       mqttSuccess \in Answers(cfg.enableMqtt),
       coapSuccess \in Answers(cfg.enableCoap) :
        HandleSensorMessage(data, mqttSuccess, coapSuccess)

HandleNullCommandStep == HandleActuatorCommandMessage(Null)

NextHub ==
    \/ HandleSensorMessageStep
    \/ HandleNullCommandStep

SpecHub == InitHub /\ [][NextHub]_vars

(***************************************************************************)
(* SpecUpstream: the same hub with the CO2 rule family on, under every     *)
(* setting of the upstream channels and every answer of their clients.     *)
(***************************************************************************)
InitUpstream ==
    /\ Init
    /\ ~cfg.useEmulator
    /\ cfg.handleCO2ChangeOnDevice /\ ~cfg.handleTempChangeOnDevice

SpecUpstream == InitUpstream /\ [][NextHub]_vars

(***************************************************************************)
(* SpecResponse: the hub with the CO2 rule family on and no upstream       *)
(* channel, driven by sensor readings and by direct calls of the response  *)
(* handler.                                                                *)
(***************************************************************************)
InitResponse ==
    /\ InitHub
    /\ cfg.handleCO2ChangeOnDevice /\ ~cfg.handleTempChangeOnDevice

\* the responses handed to handleActuatorCommandResponse: those the two
\* simulated actuators build for an ON command of this device
ResponseInputs ==
    { buildResponse(c, 0) :
        c \in CommandsOf({VENTILATION_ACTUATOR_TYPE, AIR_PURIFIER_ACTUATOR_TYPE},
                         {LocalLocationID}, {COMMAND_ON}, {MaxCmdValue}, {FALSE}) }

HandleActuatorCommandResponseStep ==
    \E data \in ResponseInputs \cup {Null} :
        HandleActuatorCommandResponse(data, FALSE, FALSE)

NextResponse ==
    \/ HandleSensorMessageStep
    \/ HandleActuatorCommandResponseStep

SpecResponse == InitResponse /\ [][NextResponse]_vars

(***************************************************************************)
(* SpecInbound: the hub driven by inbound messages, on a simulating and on *)
(* an emulating device.                                                    *)
(***************************************************************************)
HandleIncomingMessageStep ==
    \E msg \in Payloads : HandleIncomingMessage(msg)

NextInbound == HandleIncomingMessageStep

SpecInbound == InitRouter /\ [][NextInbound]_vars

(***************************************************************************)
(* Properties                                                              *)
(***************************************************************************)
\* the router calls among a handler's calls
RouterCalls(l) == Calls(l.log, "sendActuatorCommand")

\* the router would hand `data` to a task that would apply it
WouldBeApplied(ads, data) ==
    /\ routeTo(ads, data.typeID) # NoActuator
    /\ ~isRepeat(ads[routeTo(ads, data.typeID)], data.command, data.value)

\* C1: when updateActuator is called on a task with a type-matching command
\* carrying the (command, value) of the type-matching command of the call
\* just before, the second call returns None, runs neither _activateActuator
\* nor _deactivateActuator, and leaves lastKnownCommand, lastKnownValue and
\* the latest response of the task as they were.
C1_RepeatIsIgnored ==
    [][ Repeats(last, last') =>
          LET e == UpdateCalls(last')[1] IN
          /\ e.ret = Null
          /\ SideEffects(last') = <<>>
          /\ adapters'[e.who] = adapters[e.who] ]_vars

\* C1 witness: an ON command with a nonzero value was repeated on a task
\* that had applied it, and the repeat returned None
C1_Witness ==
    /\ repeated
    /\ last.op = "updateActuator"
    /\ last.arg.command = COMMAND_ON /\ last.arg.value = MaxCmdValue
    /\ last.ret = Null

\* C2: a sendActuatorCommand call with a command whose response flag is set
\* returns None, calls no task's updateActuator and leaves every task as it
\* was.
C2_ResponseNotRouted ==
    [][ \A i \in DOMAIN RouterCalls(last') :
          LET e == RouterCalls(last')[i] IN
          (e.data # Null /\ e.data.isResponse) =>
              /\ e.ret = Null
              /\ UpdateCalls(last') = <<>>
              /\ adapters' = adapters ]_vars

\* C2 witness: the router returned None for a response-flagged command of
\* this device that it would have applied as a request
C2_Witness ==
    /\ last.op = "sendActuatorCommand"
    /\ last.arg # Null /\ last.arg.isResponse
    /\ last.arg.locationID = locationID
    /\ WouldBeApplied(adapters, last.arg)
    /\ last.ret = Null

\* C3: a sendActuatorCommand call with a command whose location id differs
\* from the router's returns None, runs no side effect of any task and
\* leaves every task, its latest response included, as it was.
C3_ForeignLocationIgnored ==
    [][ \A i \in DOMAIN RouterCalls(last') :
          LET e == RouterCalls(last')[i] IN
          (e.data # Null /\ e.data.locationID # locationID) =>
              /\ e.ret = Null
              /\ SideEffects(last') = <<>>
              /\ adapters' = adapters ]_vars

\* C3 witness: the router returned None for a request of another location
\* that it would have applied had it been for this device
C3_Witness ==
    /\ last.op = "sendActuatorCommand"
    /\ last.arg # Null /\ ~last.arg.isResponse
    /\ last.arg.locationID = OtherLocationID
    /\ WouldBeApplied(adapters, last.arg)
    /\ last.ret = Null

\* the commands the rules dispatched in a handleSensorMessage call
Dispatched(l) ==
    SelectSeq(l.log, LAMBDA e : e.ev = "handleActuatorCommandMessage" /\ e.who = "self")

\* the last step was handleSensorMessage with a reading of type sensorType
Handled(sensorType) ==
    /\ last.op = "handleSensorMessage"
    /\ last.arg # Null
    /\ last.arg.typeID = sensorType

\* exactly one command was dispatched: an ON request for actuatorType that
\* carries `value`
DispatchedOnly(actuatorType, value) ==
    /\ Len(Dispatched(last)) = 1
    /\ LET ad == Dispatched(last)[1].data IN
       /\ ad.typeID = actuatorType
       /\ ad.command = COMMAND_ON
       /\ ad.value = value
       /\ ~ad.isResponse

\* what the CO2 rule owes a CO2 reading
CO2RuleDue ==
    IF last.arg.value > triggerVentilationCO2Threshold
    THEN DispatchedOnly(VENTILATION_ACTUATOR_TYPE, last.arg.value)
    ELSE Dispatched(last) = <<>>

\* C4: with handleCO2ChangeOnDevice set, handleSensorMessage on a CO2 reading
\* of value v dispatches exactly one command when v is above the CO2
\* threshold, and that command is a ventilation ON request of value v; when
\* v is at or below the threshold it dispatches none.
C4_CO2Rule ==
    (cfg.handleCO2ChangeOnDevice /\ Handled(CO2_SENSOR_TYPE)) => CO2RuleDue

\* C4 witness: a CO2 reading above the threshold was handled and the
\* ventilation task applied the command dispatched for it
C4_Witness ==
    /\ cfg.handleCO2ChangeOnDevice /\ Handled(CO2_SENSOR_TYPE)
    /\ last.arg.value = 1200
    /\ Len(Dispatched(last)) = 1
    /\ adapters["ventilationActuator"].lastKnownCommand = COMMAND_ON
    /\ adapters["ventilationActuator"].lastKnownValue = 1200

\* what the temperature and the humidity rule owe a reading that is not a
\* CO2 reading
NonCO2RulesDue ==
    IF Handled(TEMP_SENSOR_TYPE) /\ last.arg.value > triggerVentilationTempThreshold
    THEN DispatchedOnly(VENTILATION_ACTUATOR_TYPE, last.arg.value)
    ELSE IF Handled(HUMIDITY_SENSOR_TYPE)
            /\ last.arg.value > triggerAirPurifierHumidityThreshold
    THEN DispatchedOnly(AIR_PURIFIER_ACTUATOR_TYPE, last.arg.value)
    ELSE Dispatched(last) = <<>>

\* a reading that is not a CO2 reading was handled
HandledNonCO2 ==
    \E t \in SensorTypes \ {CO2_SENSOR_TYPE} : Handled(t)

DispatchedHvac(command, value) ==
    \E i \in DOMAIN Dispatched(last) :
        LET ad == Dispatched(last)[i].data IN
        /\ ad.typeID = HVAC_ACTUATOR_TYPE
        /\ ad.command = command
        /\ ad.value = value

\* C6: with handleTempChangeOnDevice the only rule flag set, a Temperature
\* reading below triggerHvacTempFloor dispatches an HVAC ON command of the
\* floor, one above triggerHvacTempCeiling an HVAC ON command of the
\* ceiling, and one in between an HVAC OFF command of value 0.
C6_LegacyHvacRule ==
    ( /\ cfg.handleTempChangeOnDevice /\ ~cfg.handleCO2ChangeOnDevice
      /\ Handled(TEMP_SENSOR_TYPE) ) =>
        IF last.arg.value < triggerHvacTempFloor
        THEN DispatchedHvac(COMMAND_ON, triggerHvacTempFloor)
        ELSE IF last.arg.value > triggerHvacTempCeiling
        THEN DispatchedHvac(COMMAND_ON, triggerHvacTempCeiling)
        ELSE DispatchedHvac(COMMAND_OFF, 0)

Responses(l) ==
    SelectSeq(UpdateCalls(l), LAMBDA e : e.ret # Null)

\* C8: when a task has applied a command dispatched by the hub
\* (updateActuator returned a response), handleActuatorCommandResponse was
\* called with that response and the actuator cache holds it under the
\* actuator's name.
C8_ResponseReachesHub ==
    \A i \in DOMAIN Responses(last) :
        LET response == Responses(last)[i].ret IN
        /\ \E j \in DOMAIN last.log :
               /\ last.log[j].ev = "handleActuatorCommandResponse"
               /\ last.log[j].data = response
        /\ getLatestActuatorDataResponseFromCache(actuatorCache, response.name)
               = response

\* the calls a handler made besides itself
Nested(l) == Tail(l.log)

\* C9: handleSensorMessage called with None returns False, writes no cache
\* entry, dispatches no command, sends nothing upstream and changes no task;
\* handleActuatorCommandMessage called with None returns None, calls no
\* router and changes nothing.
C9_NullIsRejected ==
    [][ /\ (last'.op = "handleSensorMessage" /\ last'.arg = Null) =>
              /\ last'.ret = Bool(FALSE)
              /\ Nested(last') = <<>>
              /\ UNCHANGED <<adapters, sensorCache, actuatorCache>>
        /\ (last'.op = "handleActuatorCommandMessage" /\ last'.arg = Null) =>
              /\ last'.ret = Null
              /\ Nested(last') = <<>>
              /\ UNCHANGED <<adapters, sensorCache, actuatorCache>>
      ]_vars

\* C9 witness: handleSensorMessage was called with None on a hub that has
\* a reading cached and whose rules had switched the ventilation on
C9_Witness ==
    /\ last.op = "handleSensorMessage" /\ last.arg = Null
    /\ last.ret = Bool(FALSE)
    /\ sensorCache[CO2_SENSOR_NAME] # Null
    /\ adapters["ventilationActuator"].lastKnownCommand = COMMAND_ON

\* the CoAP sends of the last step
CoapSends(l) == Calls(l.log, "sendPostRequest")

\* C10: whatever channels are enabled and whatever their sends answer,
\* handleSensorMessage on a reading returns True, has the reading cached
\* and has dispatched what the rules owe; with both channels enabled the
\* CoAP send is made whether the MQTT send succeeded or failed.
C10_SendsNeverFailTheHandler ==
    (last.op = "handleSensorMessage" /\ last.arg # Null) =>
        /\ last.ret = Bool(TRUE)
        /\ last.arg.name # "" => sensorCache[last.arg.name] = last.arg
        /\ IF Handled(CO2_SENSOR_TYPE) THEN CO2RuleDue ELSE NonCO2RulesDue
        /\ (cfg.enableMqtt /\ cfg.enableCoap) =>
               /\ Len(Calls(last.log, "publishMessage")) = 1
               /\ Len(CoapSends(last)) = 1

\* the decodes of the last step
Decodes(l) == Calls(l.log, "jsonToActuatorData")

\* C11: handleIncomingMessage on a payload that is not empty decodes it
\* once and returns; when the decoder returns None or raises, no command is
\* dispatched, no task is called and every task stays as it was; when it
\* returns a command, that command is handed to handleActuatorCommandMessage
\* exactly once.
C11_DecodeFailureIsDropped ==
    [][ (last'.op = "handleIncomingMessage" /\ last'.arg \notin {Null, EmptyMsg}) =>
          /\ last'.ret = Bool(TRUE)
          /\ Len(Decodes(last')) = 1
          /\ IF last'.arg.kind = "json"
             THEN /\ Len(Dispatched(last')) = 1
                  /\ Dispatched(last')[1].data = jsonToActuatorData(last'.arg).value
                  /\ Len(RouterCalls(last')) = 1
             ELSE /\ Dispatched(last') = <<>>
                  /\ UpdateCalls(last') = <<>>
                  /\ adapters' = adapters
      ]_vars

\* C11 witness: a payload that makes the decoder raise was handled by a hub
\* whose ventilation had been switched on by an earlier message
C11_Witness ==
    /\ last.op = "handleIncomingMessage"
    /\ last.arg = [kind |-> "raises"]
    /\ last.ret = Bool(TRUE)
    /\ adapters["ventilationActuator"].lastKnownCommand = COMMAND_ON

\* C12: handleActuatorCommandMessage on a command returns what the one
\* sendActuatorCommand call it makes returned, and a sendActuatorCommand
\* call that hands the command to a task returns what that task's
\* updateActuator returned, None for a repeat included.
C12_ResultsPassedThrough ==
    /\ (last.op = "handleActuatorCommandMessage" /\ last.arg # Null) =>
           /\ Len(RouterCalls(last)) = 1
           /\ RouterCalls(last)[1].data = last.arg
           /\ last.ret = RouterCalls(last)[1].ret
    /\ (last.op \in {"handleActuatorCommandMessage", "sendActuatorCommand"}
        /\ UpdateCalls(last) # <<>>) =>
           /\ Len(UpdateCalls(last)) = 1
           /\ RouterCalls(last)[1].ret = UpdateCalls(last)[1].ret

\* C12 witness: handleActuatorCommandMessage returned None for a command
\* that the router handed to a task and the task took for a repeat
C12_Witness ==
    /\ last.op = "handleActuatorCommandMessage"
    /\ Len(UpdateCalls(last)) = 1
    /\ repeated
    /\ last.arg.command = COMMAND_ON
    /\ last.ret = Null

\* the router accepts the command: it is a request for this device
Accepted(data) == data # Null /\ ~data.isResponse /\ data.locationID = locationID

\* the fields that hold a task of this type
Registered(ads, typeID) ==
    {f \in ActuatorFields : ads[f] # Null /\ ads[f].typeID = typeID}

\* C13: for a command that sendActuatorCommand accepts, updateActuator is
\* called on at most one task, and the type of that task is the type of the
\* command; when no task of the command's type exists, the router returns
\* None, calls no task and leaves every task as it was.
C13_RoutedByType ==
    [][ \A i \in DOMAIN RouterCalls(last') :
          LET e == RouterCalls(last')[i] IN
          Accepted(e.data) =>
              /\ Len(UpdateCalls(last')) <= 1
              /\ \A j \in DOMAIN UpdateCalls(last') :
                     LET u == UpdateCalls(last')[j] IN
                     /\ u.data = e.data
                     /\ adapters[u.who].typeID = e.data.typeID
              /\ Registered(adapters, e.data.typeID) = {} =>
                     /\ e.ret = Null
                     /\ UpdateCalls(last') = <<>>
                     /\ adapters' = adapters
              /\ Registered(adapters, e.data.typeID) # {} =>
                     Len(UpdateCalls(last')) = 1 ]_vars

\* C13 witness: on a device without emulator, whose ventilation is on, the
\* router returned None for an accepted LED display command
C13_Witness ==
    /\ ~cfg.useEmulator
    /\ last.op = "sendActuatorCommand"
    /\ Accepted(last.arg)
    /\ last.arg.typeID = LED_DISPLAY_ACTUATOR_TYPE
    /\ last.arg.command = COMMAND_ON
    /\ adapters["ventilationActuator"].lastKnownCommand = COMMAND_ON
    /\ last.ret = Null

\* the command code is neither ON nor OFF
UnknownCommand(data) == data.command \notin {COMMAND_ON, COMMAND_OFF}

\* C14: an updateActuator call with a type-matching command whose code is
\* neither ON nor OFF and whose (command, value) is not the stored pair runs
\* neither _activateActuator nor _deactivateActuator, returns a response of
\* status code -1 and stores the pair; the same command given again right
\* after returns None.
C14_UnknownCommand ==
    [][ \A i \in DOMAIN UpdateCalls(last') :
          LET e == UpdateCalls(last')[i] IN
          (typeMatches(adapters[e.who], e.data) /\ UnknownCommand(e.data)) =>
              IF isRepeat(adapters[e.who], e.data.command, e.data.value)
              THEN e.ret = Null
              ELSE /\ SideEffects(last') = <<>>
                   /\ e.ret # Null
                   /\ e.ret.statusCode = -1
                   /\ adapters'[e.who].lastKnownCommand = e.data.command
                   /\ adapters'[e.who].lastKnownValue = e.data.value
                   /\ isRepeat(adapters'[e.who], e.data.command, e.data.value)
      ]_vars

\* C14 witness: a command of unknown code was given twice in a row to the
\* task of its type, and the second call returned None
C14_Witness ==
    /\ repeated
    /\ last.op = "updateActuator"
    /\ UnknownCommand(last.arg)
    /\ last.ret = Null
    /\ \E f \in ActuatorFields :
           /\ adapters[f] # Null
           /\ adapters[f].lastKnownCommand = last.arg.command
           /\ adapters[f].latestActuatorResponse.statusCode = -1

\* C15: every response that updateActuator returns carries the command
\* code, the value and the state data of the command it was given, has the
\* response flag set, and has the status code of the side effect that ran
\* (-1 if none ran); the task's latest response then carries the same
\* command code, value and response flag; a command given without the
\* response flag is not the response.
C15_ResponseCopiesCommand ==
    [][ \A i \in DOMAIN UpdateCalls(last') :
          LET e == UpdateCalls(last')[i] IN
          e.ret # Null =>
              /\ e.ret.command = e.data.command
              /\ e.ret.value = e.data.value
              /\ e.ret.stateData = e.data.stateData
              /\ e.ret.isResponse
              /\ e.ret.statusCode = IF SideEffects(last') # <<>> THEN 0 ELSE -1
              /\ Len(SideEffects(last')) = IF UnknownCommand(e.data) THEN 0 ELSE 1
              /\ LET latest == adapters'[e.who].latestActuatorResponse IN
                 /\ latest.command = e.data.command
                 /\ latest.value = e.data.value
                 /\ latest.isResponse
              /\ ~e.data.isResponse => e.ret # e.data
      ]_vars

\* C15 witness: a task returned a response for an OFF request of nonzero
\* value that carries state data
C15_Witness ==
    /\ last.op = "updateActuator"
    /\ last.ret # Null
    /\ ~last.arg.isResponse
    /\ last.arg.command = COMMAND_OFF
    /\ last.arg.value = MaxCmdValue
    /\ last.arg.stateData = "cool down"
    /\ last.ret.stateData = "cool down"

\* the pair a task has stored
StoredPair(task) == <<task.lastKnownCommand, task.lastKnownValue>>

\* C16: the (lastKnownCommand, lastKnownValue) of a task changes only in a
\* step that calls updateActuator on that task with a command of its type
\* and a (command, value) other than the stored pair, and becomes that
\* pair; an updateActuator call with None or with a command of another type
\* returns None and changes nothing; a call on one task leaves every other
\* task as it was.
C16_StateChangesOnlyOnApply ==
    [][ /\ \A f \in ActuatorFields :
               (adapters[f] # Null /\ StoredPair(adapters'[f]) # StoredPair(adapters[f])) =>
                   \E i \in DOMAIN UpdateCalls(last') :
                       LET e == UpdateCalls(last')[i] IN
                       /\ e.who = f
                       /\ typeMatches(adapters[f], e.data)
                       /\ <<e.data.command, e.data.value>> # StoredPair(adapters[f])
                       /\ <<e.data.command, e.data.value>> = StoredPair(adapters'[f])
        /\ \A i \in DOMAIN UpdateCalls(last') :
               LET e == UpdateCalls(last')[i] IN
               /\ (e.data = Null \/ e.data.typeID # adapters[e.who].typeID) =>
                      /\ e.ret = Null
                      /\ SideEffects(last') = <<>>
                      /\ adapters' = adapters
               /\ \A g \in ActuatorFields \ {e.who} : adapters'[g] = adapters[g]
      ]_vars

\* C16 witness: the ventilation task, switched on before, was called with
\* an air purifier command it had not seen and returned None
C16_Witness ==
    /\ last.op = "updateActuator"
    /\ last.log[1].who = "ventilationActuator"
    /\ last.arg # Null
    /\ last.arg.typeID = AIR_PURIFIER_ACTUATOR_TYPE
    /\ last.arg.command = COMMAND_ON
    /\ StoredPair(adapters["ventilationActuator"]) = <<COMMAND_ON, 0>>
    /\ last.arg.value = MaxCmdValue
    /\ last.ret = Null

(***************************************************************************)
(* SpecScheduler: the two polling managers of an idle hub, started and     *)
(* stopped by the application's thread, their jobs fired by the scheduler  *)
(* threads and run by the executors' pools.                                *)
(***************************************************************************)
\* the argument of a call made on manager m
On(m) == [manager |-> m]

\* the application's thread is not inside a stopManager that waits
AppThreadFree == \A m \in Managers : ~sched[m].stopping

\* a call of startManager of manager m
StartManager(m) ==
    /\ AppThreadFree
    /\ \E r \in {startManager(m, sched[m])} :
       \E call \in {[ op |-> "startManager", arg |-> On(m), ret |-> r.ret,
                     log |-> <<Ev("startManager", m, Null, r.ret)>> ]} :
           /\ sched' = [sched EXCEPT ![m] = [r.self EXCEPT !.stopped = FALSE]]
           /\ last' = call
           /\ repeated' = Repeats(last, call)
    /\ UNCHANGED <<simVars, cfg, adapters, sensorCache, actuatorCache, handled, perfCache>>

\* a call of stopManager of manager m: it returns in this step unless it
\* has to wait for executions in progress
StopManager(m) ==
    /\ AppThreadFree
    /\ \E r \in {stopManager(m, sched[m])} :
       \E done \in {IF ~r.waits THEN r
                    ELSE IF r.self.scheduler.instances = 0
                         THEN stopManagerReturns(m, r.self) @@ [waits |-> FALSE]
                         ELSE r} :
       \E call \in {[ op |-> IF done.waits THEN "shutdown" ELSE "stopManager",
                      arg |-> On(m),
                      ret |-> IF done.waits THEN Null ELSE done.ret,
                      log |-> <<Ev("stopManager", m, Null,
                                   IF done.waits THEN Null ELSE done.ret)>> ]} :
           /\ sched' = [sched EXCEPT ![m] =
                          [done.self EXCEPT !.latePass = done.waits,
                                            !.stopped = ~done.waits,
                                            !.failed = FALSE]]
           /\ last' = call
           /\ repeated' = Repeats(last, call)
    /\ UNCHANGED <<simVars, cfg, adapters, sensorCache, actuatorCache, handled, perfCache>>

\* the executions in progress are over: the stopManager that waited returns
StopManagerReturns(m) ==
    /\ sched[m].stopping
    /\ sched[m].scheduler.instances = 0
    /\ \E r \in {stopManagerReturns(m, sched[m])} :
       \E call \in {[ op |-> "stopManager", arg |-> On(m), ret |-> r.ret,
                     log |-> <<Ev("stopManager", m, Null, r.ret)>> ]} :
           /\ sched' = [sched EXCEPT ![m] = [r.self EXCEPT !.stopped = TRUE]]
           /\ last' = call
           /\ repeated' = Repeats(last, call)
    /\ UNCHANGED <<simVars, cfg, adapters, sensorCache, actuatorCache, handled, perfCache>>

\* the run times the scheduler hands to the executor when `due` of them
\* have come due
run_times(s, due) == IF s.coalesce THEN 1 ELSE due

\* at most MaxDue run times of a job have come due when its scheduler's
\* thread processes it
MaxDue == 2

\* the scheduler's thread finds `due` run times of m's job due and submits
\* it to the executor; the thread makes its passes while the scheduler
\* runs, and it ends the pass that shutdown found under way
ProcessJobs(m, due) ==
    /\ sched[m].scheduler # Null
    /\ sched[m].scheduler.running \/ sched[m].latePass
    /\ sched[m].scheduler.hasJob
    /\ sched[m].scheduler.poolOpen
    /\ \E r \in {submit_job(sched[m].scheduler)} :
       \E call \in {[ op |-> "_process_jobs", arg |-> On(m), ret |-> Bool(r.submitted),
                     log |-> <<Ev("submit_job", m,
                                  [run_times |-> run_times(sched[m].scheduler, due)],
                                  Bool(r.submitted))>> ]} :
           /\ sched' = [sched EXCEPT ![m].scheduler = r.scheduler,
                                     ![m].latePass = FALSE]
           /\ last' = call
           /\ repeated' = Repeats(last, call)
    /\ UNCHANGED <<simVars, cfg, adapters, sensorCache, actuatorCache, handled, perfCache>>

\* an execution of the sensor job: one call of handleTelemetry, in which
\* `fault` goes wrong
RunSensorJob(fault) ==
    /\ sched[sensorAdapterMgr].scheduler.instances > 0
    /\ \E r \in {SensorAdapterManager_handleTelemetry(cfg, adapters, sensorCache,
                                                     fault)} :
       \E call \in {[ op |-> "run_job", arg |-> On(sensorAdapterMgr),
                      ret |-> Bool(r.raised),
                      log |-> <<Ev("handleTelemetry", sensorAdapterMgr, fault,
                                   Bool(r.raised))>> \o r.log ]} :
           /\ adapters' = r.adapters
           /\ sensorCache' = r.sensorCache
           /\ sched' = [sched EXCEPT ![sensorAdapterMgr] =
                          [@ EXCEPT !.scheduler = run_job(@, r.raised),
                                    !.failed = @ \/ (fault.at # "none"
                                                    /\ sched[sensorAdapterMgr].scheduler.running)]]
           /\ last' = call
           /\ repeated' = Repeats(last, call)
    /\ handled' = handledAfter(handled, delivered(fault))
    /\ UNCHANGED <<simVars, cfg, actuatorCache, perfCache>>

\* an execution of the performance job: one call of handleTelemetry, in
\* which the tasks report cpuUtil and memUtil and `fault` goes wrong
RunPerfJob(cpuUtil, memUtil, fault) ==
    /\ sched[sysPerfMgr].scheduler # Null
    /\ sched[sysPerfMgr].scheduler.instances > 0
    /\ \E r \in {SystemPerformanceManager_handleTelemetry(cfg, perfCache, cpuUtil,
                                                         memUtil, fault)} :
       \E call \in {[ op |-> "run_job", arg |-> On(sysPerfMgr),
                      ret |-> Bool(r.raised),
                      log |-> <<Ev("handleTelemetry", sysPerfMgr, fault,
                                   Bool(r.raised))>> \o r.log ]} :
           /\ perfCache' = r.perfCache
           /\ sched' = [sched EXCEPT ![sysPerfMgr] =
                          [@ EXCEPT !.scheduler = run_job(@, r.raised),
                                    !.failed = @ \/ (fault.at # "none"
                                                    /\ sched[sysPerfMgr].scheduler.running)]]
           /\ last' = call
           /\ repeated' = Repeats(last, call)
    /\ UNCHANGED <<simVars, cfg, adapters, sensorCache, actuatorCache, handled>>

InitScheduler == Init /\ HubIdle /\ ~cfg.useEmulator

StartManagerStep == \E m \in Managers : StartManager(m)
StopManagerStep == \E m \in Managers : StopManager(m)
StopManagerReturnsStep == \E m \in Managers : StopManagerReturns(m)
ProcessJobsStep == \E m \in Managers, due \in 1..MaxDue : ProcessJobs(m, due)
RunSensorJobStep == \E fault \in SensorFaults : RunSensorJob(fault)
RunPerfJobStep ==
    \E cpuUtil \in CpuUtilValues, memUtil \in MemUtilValues, fault \in PerfFaults :
        RunPerfJob(cpuUtil, memUtil, fault)

NextScheduler ==
    \/ StartManagerStep
    \/ StopManagerStep
    \/ StopManagerReturnsStep
    \/ ProcessJobsStep
    \/ RunSensorJobStep
    \/ RunPerfJobStep

SpecScheduler == InitScheduler /\ [][NextScheduler]_vars

\* the step is the return of a call of op on manager m
Returned(op, m) == last'.op = op /\ last'.arg = On(m)

\* C17: on the sensor scheduler, startManager returns True exactly when the
\* scheduler was not running, and then it runs; it returns False and leaves
\* the scheduler as it is when it was running.  stopManager returns True
\* exactly when the scheduler was running when it was called, and then it
\* is stopped; it returns False and leaves the scheduler as it is when it
\* was stopped already.
C17_StartStopIdempotent ==
    [][ /\ Returned("startManager", sensorAdapterMgr) =>
              IF sched[sensorAdapterMgr].scheduler.running
              THEN /\ last'.ret = Bool(FALSE)
                   /\ sched'[sensorAdapterMgr].scheduler = sched[sensorAdapterMgr].scheduler
              ELSE /\ last'.ret = Bool(TRUE)
                   /\ sched'[sensorAdapterMgr].scheduler.running
        /\ Returned("stopManager", sensorAdapterMgr) =>
              IF sched[sensorAdapterMgr].scheduler.running
                 \/ sched[sensorAdapterMgr].stopping
              THEN /\ last'.ret = Bool(TRUE)
                   /\ ~sched'[sensorAdapterMgr].scheduler.running
              ELSE /\ last'.ret = Bool(FALSE)
                   /\ sched'[sensorAdapterMgr].scheduler = sched[sensorAdapterMgr].scheduler
      ]_vars

\* C17 witness: stopManager has answered False on a sensor scheduler that
\* had run a whole tick and been stopped before
C17_Witness ==
    /\ last.op = "stopManager" /\ last.arg = On(sensorAdapterMgr)
    /\ last.ret = Bool(FALSE)
    /\ sensorCache[CO2_SENSOR_NAME] # Null
    /\ sched[sensorAdapterMgr].stopped

\* C18: at most 2 executions of the sensor job are in progress at any time
\* and no firing of it is ever queued; a firing that comes due while 2
\* executions are in progress is refused and leaves the scheduler as it is.
C18_AtMostTwoInstances ==
    /\ [](/\ sched[sensorAdapterMgr].scheduler.instances <= 2
          /\ sched[sensorAdapterMgr].scheduler.pending = 0)
    /\ [][ (Returned("_process_jobs", sensorAdapterMgr)
            /\ sched[sensorAdapterMgr].scheduler.instances = 2) =>
               /\ last'.ret = Bool(FALSE)
               /\ sched'[sensorAdapterMgr].scheduler
                     = sched[sensorAdapterMgr].scheduler
         ]_vars

\* C18 witness: a firing of the sensor job has been refused while 2
\* executions were in progress
C18_Witness ==
    /\ last.op = "_process_jobs" /\ last.arg = On(sensorAdapterMgr)
    /\ last.ret = Bool(FALSE)
    /\ sched[sensorAdapterMgr].scheduler.instances = 2

(***************************************************************************)
(* SpecSchedulerFair: SpecScheduler with the progress the threads make: a  *)
(* running scheduler's thread keeps processing its job at every interval,  *)
(* and an execution of a job comes to its end.                             *)
(***************************************************************************)
FairScheduler ==
    /\ \A m \in Managers : WF_vars(\E due \in 1..MaxDue : ProcessJobs(m, due))
    /\ WF_vars(RunSensorJobStep)
    /\ WF_vars(RunPerfJobStep)

SpecSchedulerFair == SpecScheduler /\ FairScheduler

\* the end of a tick of manager m
RunJob(m) == IF m = sensorAdapterMgr THEN RunSensorJobStep ELSE RunPerfJobStep

\* the step is the end of a tick of manager m in which something raised
FailedTick(m) == Returned("run_job", m) /\ last'.log[1].data.at # "none"

\* C19: what is raised in a tick is caught: in a sensor tick by
\* handleTelemetry itself, so that the job function returns; in either tick
\* the scheduler is left running with its job, only the execution is over.
\* And after a tick of a manager has failed, ticks of it go on ending for as
\* long as stopManager is not called on it.
C19_TickFailureIsContained ==
    /\ [][ \A m \in Managers : FailedTick(m) =>
              /\ m = sensorAdapterMgr => last'.ret = Bool(FALSE)
              /\ sched'[m].scheduler =
                    [sched[m].scheduler EXCEPT !.instances = @ - 1]
         ]_vars
    /\ \A m \in Managers :
          []<>(~sched[m].failed) \/ []<><<RunJob(m)>>_vars

\* C19 witness: a tick of each manager has failed, neither has been stopped
\* since, and a later performance tick has just ended without a fault
C19_Witness ==
    /\ sched[sensorAdapterMgr].failed /\ sched[sysPerfMgr].failed
    /\ sched[sensorAdapterMgr].scheduler.running
    /\ sched[sysPerfMgr].scheduler.running
    /\ last.op = "run_job" /\ last.arg = On(sysPerfMgr)
    /\ last.log[1].data = NoFault
    /\ perfCache[CPU_UTIL_NAME] # Null

\* the executions of m's job in progress
Instances(self) == IF self.scheduler = Null THEN 0 ELSE self.scheduler.instances

\* C20: once stopManager of a manager has returned, no tick of that manager
\* starts (until startManager is called on it again); and a tick in progress,
\* whether or not stopManager has been called, is ended by nothing but the
\* return of its handleTelemetry call.
C20_StopHaltsNewTicksOnly ==
    [][ \A m \in Managers :
          /\ Instances(sched'[m]) > Instances(sched[m]) => ~sched[m].stopped
          /\ Instances(sched'[m]) < Instances(sched[m]) =>
                /\ Returned("run_job", m)
                /\ Instances(sched'[m]) = Instances(sched[m]) - 1
      ]_vars

\* C20 witness: stopManager of the sensor manager is waiting, and the last
\* of the ticks that were in progress when it was called has just handed all
\* its readings to the hub and ended
C20_Witness ==
    /\ sched[sensorAdapterMgr].stopping
    /\ last.op = "run_job" /\ last.arg = On(sensorAdapterMgr)
    /\ last.log[1].data = NoFault
    /\ sched[sensorAdapterMgr].scheduler.instances = 0

(***************************************************************************)
(* SpecSensor: one sensor task, built with any of the data sets or with    *)
(* none, on which generateTelemetry, getTelemetryValue and                 *)
(* getLatestTelemetry are called one after the other.                      *)
(***************************************************************************)
\* the generateTelemetry calls among a handler's calls
GenerateCalls(l) == Calls(l.log, "generateTelemetry")

\* a call of generateTelemetry
GenerateTelemetry(uniform) ==
    /\ generated < MaxCalls
    /\ \E r \in {generateTelemetry(sensorTask, uniform)} :
       \E call \in {[ op |-> "generateTelemetry", arg |-> Null, ret |-> r.ret,
                     log |-> r.log ]} :
           /\ sensorTask' = r.self
           /\ generated' = generated + Len(GenerateCalls(call))
           /\ last' = call
    /\ UNCHANGED <<lateVars, app, flight, cfg, adapters, sensorCache, actuatorCache, repeated, handled,
                   sched, perfCache>>

\* a call of getTelemetryValue
GetTelemetryValue(uniform) ==
    /\ generated < MaxCalls
    /\ \E r \in {getTelemetryValue(sensorTask, uniform)} :
       \E call \in {[ op |-> "getTelemetryValue", arg |-> Null, ret |-> r.ret,
                     log |-> <<Ev("getTelemetryValue", sensorTask.name, Null,
                                  r.ret)>> \o r.log ]} :
           /\ sensorTask' = r.self
           /\ generated' = generated + Len(GenerateCalls(call))
           /\ last' = call
    /\ UNCHANGED <<lateVars, app, flight, cfg, adapters, sensorCache, actuatorCache, repeated, handled,
                   sched, perfCache>>

\* a call of getLatestTelemetry
GetLatestTelemetry(uniform) ==
    /\ generated < MaxCalls
    /\ \E r \in {getLatestTelemetry(sensorTask, uniform)} :
       \E call \in {[ op |-> "getLatestTelemetry", arg |-> Null, ret |-> r.ret,
                     log |-> <<Ev("getLatestTelemetry", sensorTask.name, Null,
                                  r.ret)>> \o r.log ]} :
           /\ sensorTask' = r.self
           /\ generated' = generated + Len(GenerateCalls(call))
           /\ last' = call
    /\ UNCHANGED <<lateVars, app, flight, cfg, adapters, sensorCache, actuatorCache, repeated, handled,
                   sched, perfCache>>

InitSensor ==
    /\ InitDevice /\ HubIdle /\ ~cfg.useEmulator
    /\ sensorTask \in SensorTasks
    /\ generated = 0
    /\ app = Main(FALSE)
    /\ flight = NoTicks
    /\ perfData = NewSystemPerformanceData
    /\ hub = DeviceDataManager
    /\ threads = NoThreads

GenerateTelemetryStep == \E uniform \in uniformValues(sensorTask) : GenerateTelemetry(uniform)
GetTelemetryValueStep == \E uniform \in uniformValues(sensorTask) : GetTelemetryValue(uniform)
GetLatestTelemetryStep == \E uniform \in uniformValues(sensorTask) : GetLatestTelemetry(uniform)

NextSensor ==
    \/ GenerateTelemetryStep
    \/ GetTelemetryValueStep
    \/ GetLatestTelemetryStep

SpecSensor == InitSensor /\ [][NextSensor]_vars

\* C21: on a task with a data set of N >= 1 entries, the k-th call of
\* generateTelemetry, counted over the direct calls and those the getters
\* make, returns a reading with the value of entry (k-1) mod N, and after
\* every call the stored index lies in 0..N-1.
C21_DataSetWrapsAround ==
    /\ [](~sensorTask.useRandomizer =>
              sensorTask.dataSetIndex \in 0..(getDataEntryCount(sensorTask.dataSet) - 1))
    /\ [][ (~sensorTask.useRandomizer /\ generated' = generated + 1) =>
              GenerateCalls(last')[1].ret.value
                  = getDataEntry(sensorTask.dataSet,
                                 generated % getDataEntryCount(sensorTask.dataSet))
         ]_vars

\* C21 witness: call N+1 on a data set of N = 3 different entries has
\* returned the first entry again
C21_Witness ==
    /\ ~sensorTask.useRandomizer
    /\ sensorTask.dataSet = SensorDataSet(<<300, 800, 1500>>)
    /\ generated = 4
    /\ last.op = "generateTelemetry"
    /\ last.ret.value = 300

\* the value a getter hands back for a reading
Answer(op, reading) ==
    IF op = "getTelemetryValue" THEN [value |-> reading.value] ELSE reading

\* C22: getLatestTelemetry and getTelemetryValue call generateTelemetry
\* once when the task holds no reading, and hand back the new reading (its
\* value); when it holds one they hand back that reading (its value), call
\* nothing and leave the task, the data set index included, as it is.
C22_GenerateOnFirstAccess ==
    [][ last'.op \in {"getTelemetryValue", "getLatestTelemetry"} =>
          IF sensorTask.latestSensorData = Null
          THEN /\ Len(GenerateCalls(last')) = 1
               /\ sensorTask'.latestSensorData = GenerateCalls(last')[1].ret
               /\ last'.ret = Answer(last'.op, GenerateCalls(last')[1].ret)
          ELSE /\ GenerateCalls(last') = <<>>
               /\ sensorTask' = sensorTask
               /\ last'.ret = Answer(last'.op, sensorTask.latestSensorData)
      ]_vars

\* C22 witness: after two generateTelemetry calls on a data set of three
\* entries, getTelemetryValue has handed back the second entry without a
\* further call
C22_Witness ==
    /\ last.op = "getTelemetryValue"
    /\ GenerateCalls(last) = <<>>
    /\ generated = 2
    /\ sensorTask.dataSet = SensorDataSet(<<300, 800, 1500>>)
    /\ sensorTask.dataSetIndex = 2
    /\ last.ret = [value |-> 800]

\* C28: the reading a sensor task has generated last has a value within the
\* task's range minVal..maxVal, whether the task draws its values or looks
\* them up in its data set.
C28_ValueWithinRange ==
    sensorTask.latestSensorData # Null =>
        /\ sensorTask.minVal <= sensorTask.latestSensorData.value
        /\ sensorTask.latestSensorData.value <= sensorTask.maxVal

(***************************************************************************)
(* SpecFallback: the router of an emulating device whose emulator module   *)
(* loaded or failed to load, driven by direct calls.                       *)
(***************************************************************************)
InitFallback ==
    /\ cfg \in Configs /\ HubIdle /\ cfg.useEmulator
    /\ adapters \in {loadActuatorEmulationTasks(outcome) : outcome \in EmulatorLoads}
    /\ sensorCache = [n \in SensorNames |-> Null]
    /\ actuatorCache = [n \in ActuatorNames |-> Null]
    /\ last = NoCall
    /\ repeated = FALSE
    /\ handled = [n \in SensorNames \cup {""} |-> Null]
    /\ sched = [m \in Managers |-> Manager(m)]
    /\ perfCache = [n \in PerfNames |-> Null]
    /\ sensorTask = CO2SensorSimTask(SensorDataSet(<<800>>))
    /\ generated = 0
    /\ app = Main(FALSE)
    /\ flight = NoTicks
    /\ perfData = NewSystemPerformanceData
    /\ hub = DeviceDataManager
    /\ threads = NoThreads

NextFallback == SendActuatorCommandStep

SpecFallback == InitFallback /\ [][NextFallback]_vars

\* the emulator was asked for and its loading failed
LoadFailed == cfg.useEmulator /\ adapters["ledDisplayActuator"] = Null

\* C23: on a router whose emulated actuator failed to load, a command of
\* the emulated actuator's type that the router accepts and that repeats
\* nothing gets a response, built by a simulation task of that type.
C23_FallbackAnswers ==
    [][ ( /\ LoadFailed
          /\ last'.op = "sendActuatorCommand"
          /\ Accepted(last'.arg)
          /\ last'.arg.typeID = LED_DISPLAY_ACTUATOR_TYPE
          /\ ~repeated' ) =>
            /\ last'.ret # Null
            /\ Len(UpdateCalls(last')) = 1
      ]_vars

(***************************************************************************)
(* Spec: the hub's response handler and its performance handler, called    *)
(* directly under every choice of upstream channels.                       *)
(***************************************************************************)
\* a call of the hub's performance handler
HandleSystemPerformanceMessage(data, mqttSuccess, coapSuccess) ==
    /\ \E r \in {handleSystemPerformanceMessage(cfg, perfCache, data,
                                               mqttSuccess, coapSuccess)} :
       \E call \in {[ op |-> "handleSystemPerformanceMessage", arg |-> data,
                     ret |-> r.ret,
                     log |-> <<Ev("handleSystemPerformanceMessage", "caller",
                                  data, r.ret)>> \o r.log ]} :
           /\ perfCache' = r.perfCache
           /\ last' = call
           /\ repeated' = Repeats(last, call)
    /\ UNCHANGED <<simVars, cfg, adapters, sensorCache, actuatorCache, handled, sched>>

\* the samples handed to handleSystemPerformanceMessage
PerfSampleValues == {35, 70}

PerfSamples ==
    { SystemPerformanceData(cpuUtil, memUtil) :
        cpuUtil \in PerfSampleValues, memUtil \in PerfSampleValues }

InitPatterns ==
    /\ Init
    /\ ~cfg.handleCO2ChangeOnDevice /\ ~cfg.handleTempChangeOnDevice
    /\ ~cfg.useEmulator

ResponsePatternStep ==
    \E data \in ResponseInputs \cup {Null}, mqttSuccess \in BOOLEAN, coapSuccess \in BOOLEAN :
        HandleActuatorCommandResponse(data, mqttSuccess, coapSuccess)

PerformancePatternStep ==
    \E data \in PerfSamples \cup {Null}, mqttSuccess \in BOOLEAN, coapSuccess \in BOOLEAN :
        HandleSystemPerformanceMessage(data, mqttSuccess, coapSuccess)

NextPatterns ==
    \/ ResponsePatternStep
    \/ PerformancePatternStep

SpecPatterns == InitPatterns /\ [][NextPatterns]_vars

MqttSends(l) == Calls(l.log, "publishMessage")

\* the cache a handler of the pattern writes
PatternCache(op, actuators, samples) ==
    IF op = "handleActuatorCommandResponse" THEN actuators ELSE samples

\* C24: handleActuatorCommandResponse and handleSystemPerformanceMessage
\* on None return False, write no cache and send nothing; on an entity they
\* return True whatever the sends answer, leave the entity in their cache
\* under its name and, when a channel is enabled, send it upstream.
C24_SamePattern ==
    [][ last'.op \in {"handleActuatorCommandResponse",
                      "handleSystemPerformanceMessage"} =>
          IF last'.arg = Null
          THEN /\ last'.ret = Bool(FALSE)
               /\ actuatorCache' = actuatorCache /\ perfCache' = perfCache
               /\ Len(MqttSends(last')) = 0 /\ Len(CoapSends(last')) = 0
          ELSE /\ last'.ret = Bool(TRUE)
               /\ PatternCache(last'.op, actuatorCache', perfCache')[last'.arg.name]
                      = last'.arg
               /\ (cfg.enableMqtt \/ cfg.enableCoap) =>
                      Len(MqttSends(last')) + Len(CoapSends(last')) >= 1
      ]_vars

\* the sends of the last step that carry entity msg
SendsOf(l, ev, msg) == SelectSeq(Calls(l.log, ev), LAMBDA e : e.data = msg)

\* C27: with CoAP enabled, handleSensorMessage on a reading, whose resource
\* CDA_SENSOR_MSG_RESOURCE has no mapping, posts nothing over CoAP, returns
\* True, and publishes the reading once over MQTT when MQTT is enabled.
C27_UnmappedResourceIsDropped ==
    ( /\ last.op = "handleSensorMessage" /\ last.arg # Null
      /\ cfg.enableCoap
      /\ _mapCdaResourceToGda(CDA_SENSOR_MSG_RESOURCE) = NoResource ) =>
        /\ Len(SendsOf(last, "sendPostRequest", last.arg)) = 0
        /\ last.ret = Bool(TRUE)
        /\ cfg.enableMqtt =>
               /\ Len(SendsOf(last, "publishMessage", last.arg)) = 1
               /\ SendsOf(last, "publishMessage", last.arg)[1].who
                      = CDA_SENSOR_MSG_RESOURCE

C27_Witness ==
    /\ last.op = "handleSensorMessage" /\ last.arg # Null
    /\ cfg.enableCoap /\ cfg.enableMqtt
    /\ _mapCdaResourceToGda(CDA_SENSOR_MSG_RESOURCE) = NoResource
    /\ Len(SendsOf(last, "publishMessage", last.arg)) = 1
    /\ Len(SendsOf(last, "sendPostRequest", last.arg)) = 0
    /\ last.ret = Bool(TRUE)

(***************************************************************************)
(* ConstrainedDeviceApp and main()                                         *)
(***************************************************************************)
\* SensorAdapterManager.stopManager / SystemPerformanceManager.stopManager
\* through to their return, when no execution of the job is in progress
stopManagerIdle(m, self) ==
    Then(stopManager(m, self), LAMBDA r :
        IF r.waits THEN stopManagerReturns(m, r.self).self ELSE r.self)

\* DeviceDataManager.startManager : the two polling managers are started
DeviceDataManager_startManager(managers) ==
    [ m \in Managers |-> [startManager(m, managers[m]).self EXCEPT !.stopped = FALSE] ]

\* DeviceDataManager.stopManager : the two polling managers are stopped
DeviceDataManager_stopManager(managers) ==
    [ m \in Managers |->
        [stopManagerIdle(m, managers[m]) EXCEPT !.stopped = TRUE, !.failed = FALSE] ]

\* ConstrainedDeviceApp.startApp
startApp(self, managers) ==
    [ self |-> [self EXCEPT !.isStarted = TRUE],
      managers |-> DeviceDataManager_startManager(managers),
      log |-> <<Ev("startApp", "main", Null, Null)>> ]

\* ConstrainedDeviceApp.stopApp : the code is logged
stopApp(self, managers, code) ==
    [ self |-> [self EXCEPT !.isStarted = FALSE, !.stopCode = [code |-> code]],
      managers |-> DeviceDataManager_stopManager(managers),
      log |-> <<Ev("stopApp", "main", [code |-> code], Null)>> ]

\* the codes main() hands to stopApp
StopCodes == [timed |-> 0, interrupt |-> 0 - 1, exception |-> 0 - 2]

\* exit(code) : the status the interpreter ends the process with; without
\* an argument it is 0
exit(code) == IF code = Null THEN [code |-> 0] ELSE code

\* main() leaves its try block: at the end of the timed run, or through one
\* of its two except clauses; stopApp is called if there is an app
leave(self, managers, how) ==
    IF self.cda
    THEN Then(stopApp(self, managers, StopCodes[how]), LAMBDA r :
         [ self |-> [r.self EXCEPT !.pc = "leaving", !.leftBy = how],
           managers |-> r.managers, log |-> r.log ])
    ELSE [ self |-> [self EXCEPT !.pc = "leaving", !.leftBy = how],
           managers |-> managers, log |-> <<>> ]

\* how a statement of main()'s try block ends
Outcomes == {"ok", "KeyboardInterrupt", "Exception"}

except(outcome) == IF outcome = "KeyboardInterrupt" THEN "interrupt" ELSE "exception"

\* a step of main(): its result r becomes the state
MainStep(op, r) ==
    \E call \in {[op |-> op, arg |-> Null, ret |-> Null, log |-> r.log]} :
        /\ app' = r.self
        /\ sched' = r.managers
        /\ last' = call
        /\ repeated' = Repeats(last, call)
        /\ UNCHANGED <<lateVars, sensorTask, generated, flight, cfg, adapters, sensorCache,
                       actuatorCache, handled, perfCache>>

\* cda = ConstrainedDeviceApp()
Construct(outcome) ==
    /\ app.pc = "main"
    /\ MainStep("ConstrainedDeviceApp",
                IF outcome = "ok"
                THEN [ self |-> [app EXCEPT !.pc = "constructed", !.cda = TRUE],
                       managers |-> sched, log |-> <<>> ]
                ELSE leave(app, sched, except(outcome)))

\* cda.startApp()
StartApp(outcome) ==
    /\ app.pc = "constructed"
    /\ MainStep("startApp",
                IF outcome = "ok"
                THEN Then(startApp(app, sched), LAMBDA r :
                     [ self |-> [r.self EXCEPT !.pc = "sleeping"],
                       managers |-> r.managers, log |-> r.log ])
                ELSE leave(app, sched, except(outcome)))

\* sleep(65) returns and cda.stopApp(0) is called
TimedCompletion ==
    /\ app.pc = "sleeping"
    /\ ~app.runForever
    /\ app.isStarted
    /\ MainStep("sleep", leave(app, sched, "timed"))

\* Ctrl+C during either sleep
Interrupt ==
    /\ app.pc = "sleeping"
    /\ MainStep("sleep", leave(app, sched, "interrupt"))

\* exit() at the end of main()
Exit ==
    /\ app.pc = "leaving"
    /\ MainStep("exit", [ self |-> [app EXCEPT !.pc = "exited",
                                               !.exitCode = exit(Null)],
                          managers |-> sched, log |-> <<>> ])

InitApp ==
    /\ InitDevice
    /\ ~cfg.useEmulator
    /\ sensorTask = CO2SensorSimTask(SensorDataSet(<<800>>))
    /\ generated = 0
    /\ app \in {Main(runForever) : runForever \in BOOLEAN}
    /\ flight = NoTicks
    /\ perfData = NewSystemPerformanceData
    /\ hub = DeviceDataManager
    /\ threads = NoThreads

ConstructStep == \E outcome \in Outcomes : Construct(outcome)
StartAppStep == \E outcome \in Outcomes : StartApp(outcome)

NextApp ==
    \/ ConstructStep
    \/ StartAppStep
    \/ TimedCompletion
    \/ Interrupt
    \/ Exit

SpecApp == InitApp /\ [][NextApp]_vars

\* C29: the process ends with status 0 after the timed run, and with a
\* status other than 0 after an interrupt and after a startup exception.
C29_ExitCodesTellHowItEnded ==
    app.pc = "exited" =>
        /\ app.leftBy = "timed" => app.exitCode.code = 0
        /\ app.leftBy = "interrupt" => app.exitCode.code # 0
        /\ app.leftBy = "exception" => app.exitCode.code # 0

\* C30: the first call made on a device, an updateActuator with an ON or
\* OFF command of the called task's type, whatever its value, is not
\* debounced: the task applies it and returns a response.
C30_FirstCommandIsApplied ==
    [][ ( /\ last = NoCall
          /\ last'.op = "updateActuator"
          /\ typeMatches(adapters[last'.log[1].who], last'.arg)
          /\ last'.arg.command \in {COMMAND_ON, COMMAND_OFF} ) =>
            /\ last'.ret # Null
            /\ Len(Calls(last'.log, "_activateActuator"))
                   + Len(Calls(last'.log, "_deactivateActuator")) = 1
      ]_vars

(***************************************************************************)
(* SpecOverlap: the executions of the sensor job followed reading by       *)
(* reading, each in its own thread of the scheduler's pool, on a hub with  *)
(* the CO2 rule family on and under every setting of the upstream channels.*)
(***************************************************************************)
\* the i-th reading of the t-th execution: successive executions get
\* successive values from the sensor tasks
TickReading(t, i) == [TickReadings[i] EXCEPT !.value = @ - (t - 1)]

\* the positions of an execution: not started (0), about to hand its i-th
\* reading to the hub (1..4), about to return (5), returned (6)
NotStarted == 0
AboutToReturn == Len(TickReadings) + 1
TickReturned == Len(TickReadings) + 2

InProgress(t) == flight.pos[t] \in 1..AboutToReturn

\* an execution submitted to the pool starts: handleTelemetry generates its
\* four readings
BeginTick(t) ==
    /\ flight.pos[t] = NotStarted
    /\ \A u \in 1..(t - 1) : flight.pos[u] # NotStarted
    /\ Cardinality({u \in 1..MaxTicks : InProgress(u)})
           < sched[sensorAdapterMgr].scheduler.instances
    /\ \E call \in {[ op |-> "handleTelemetry", arg |-> On(sensorAdapterMgr),
                      ret |-> Null,
                      log |-> [i \in 1..Len(TickReadings) |->
                                 Ev("generateTelemetry", TickReadings[i].name, Null,
                                    TickReading(t, i))] ]} :
           /\ last' = call
           /\ repeated' = Repeats(last, call)
    /\ flight' = [flight EXCEPT !.pos[t] = 1]
    /\ UNCHANGED <<lateVars, sensorTask, generated, app, cfg, adapters, sensorCache,
                   actuatorCache, handled, sched, perfCache>>

max(a, b) == IF a >= b THEN a ELSE b

\* execution t hands its next reading to the hub: one call of
\* handleSensorMessage, in the execution's thread
HandReading(t) ==
    /\ flight.pos[t] \in 1..Len(TickReadings)
    /\ \E data \in {TickReading(t, flight.pos[t])} :
       \E r \in {handleSensorMessage(cfg, adapters, sensorCache, data, TRUE, TRUE)} :
       \E call \in {[ op |-> "handleSensorMessage", arg |-> data, ret |-> r.ret,
                      log |-> <<Ev("handleSensorMessage", sensorAdapterMgr, data,
                                   r.ret)>> \o r.log ]} :
           /\ adapters' = r.adapters
           /\ sensorCache' = r.sensorCache
           /\ handled' = [handled EXCEPT ![data.name] = data]
           /\ flight' = [flight EXCEPT !.pos[t] = @ + 1,
                                       !.newest[data.name] = max(@, t)]
           /\ last' = call
           /\ repeated' = Repeats(last, call)
    /\ UNCHANGED <<lateVars, sensorTask, generated, app, cfg, actuatorCache, sched, perfCache>>

\* execution t returns: its thread goes back to the pool
EndTick(t) ==
    /\ flight.pos[t] = AboutToReturn
    /\ \E call \in {[ op |-> "run_job", arg |-> On(sensorAdapterMgr),
                      ret |-> Bool(FALSE), log |-> <<>> ]} :
           /\ last' = call
           /\ repeated' = Repeats(last, call)
    /\ flight' = [flight EXCEPT !.pos[t] = TickReturned]
    /\ sched' = [sched EXCEPT ![sensorAdapterMgr].scheduler = run_job(@, FALSE)]
    /\ UNCHANGED <<lateVars, sensorTask, generated, app, cfg, adapters, sensorCache,
                   actuatorCache, handled, perfCache>>

InitOverlap ==
    /\ Init
    /\ ~cfg.useEmulator
    /\ cfg.handleCO2ChangeOnDevice /\ ~cfg.handleTempChangeOnDevice

StartSensorManagerStep == StartManager(sensorAdapterMgr)
SubmitSensorJobStep == \E due \in 1..MaxDue : ProcessJobs(sensorAdapterMgr, due)
BeginTickStep == \E t \in 1..MaxTicks : BeginTick(t)
HandReadingStep == \E t \in 1..MaxTicks : HandReading(t)
EndTickStep == \E t \in 1..MaxTicks : EndTick(t)

NextOverlap ==
    \/ StartSensorManagerStep
    \/ SubmitSensorJobStep
    \/ BeginTickStep
    \/ HandReadingStep
    \/ EndTickStep

SpecOverlap == InitOverlap /\ [][NextOverlap]_vars

\* C25: whenever executions of the sensor job have written a name to the
\* sensor cache, the entry of the name is the reading of the latest started
\* one among them.
C25_NewestTickHoldsTheCache ==
    \A i \in 1..Len(TickReadings) :
        flight.newest[TickReadings[i].name] # NotStarted =>
            sensorCache[TickReadings[i].name]
                = TickReading(flight.newest[TickReadings[i].name], i)

\* the step is execution t handing a reading to the hub
Hands(t) ==
    /\ flight.pos[t] \in 1..Len(TickReadings)
    /\ flight'.pos[t] = flight.pos[t] + 1

\* the positions in a handler's list of calls of the calls named ev that
\* carry data
Positions(log, ev, data) ==
    {i \in DOMAIN log : log[i].ev = ev /\ log[i].data = data}

\* in the list of calls, every command dispatched by a rule is followed by
\* its routing and by the task's updateActuator, and these precede the
\* publication of the reading
ChainInOrder(log, reading) ==
    \A d \in DOMAIN Dispatched([log |-> log]) :
        LET ad == Dispatched([log |-> log])[d].data IN
        \E i \in Positions(log, "handleActuatorCommandMessage", ad),
           j \in Positions(log, "sendActuatorCommand", ad),
           k \in Positions(log, "updateActuator", ad) :
            /\ i < j /\ j < k
            /\ \A p \in Positions(log, "publishMessage", reading) : k < p

\* C26: when an execution of the sensor job hands a reading to the hub,
\* the call returns True with the chain of that reading done: the reading
\* is in the cache, every command a rule dispatched for it has been routed
\* and handed to its task, in that order, and the reading has been published
\* after that if MQTT is enabled; the execution has moved to its next
\* reading only, and no other execution has moved.
C26_ChainRunsToCompletion ==
    [][ \A t \in 1..MaxTicks : Hands(t) =>
          LET reading == TickReading(t, flight.pos[t]) IN
          /\ last'.op = "handleSensorMessage"
          /\ last'.arg = reading
          /\ last'.ret = Bool(TRUE)
          /\ sensorCache'[reading.name] = reading
          /\ ChainInOrder(last'.log, reading)
          /\ cfg.enableMqtt => Len(SendsOf(last', "publishMessage", reading)) = 1
          /\ \A u \in 1..MaxTicks \ {t} : flight'.pos[u] = flight.pos[u]
      ]_vars

\* C26 witness: an execution has handed over a CO2 reading above the
\* threshold while another was in progress; the ventilation command was
\* dispatched, routed, applied and answered, and the reading was published
C26_Witness ==
    /\ last.op = "handleSensorMessage"
    /\ last.arg.typeID = CO2_SENSOR_TYPE
    /\ cfg.enableMqtt
    /\ Cardinality({t \in 1..MaxTicks : InProgress(t)}) = 2
    /\ Len(Dispatched(last)) = 1
    /\ Len(Responses(last)) = 1
    /\ ChainInOrder(last.log, last.arg)
    /\ Len(SendsOf(last, "publishMessage", last.arg)) = 1
    /\ sensorCache[last.arg.name] = last.arg

(***************************************************************************)
(* SpecForward: the three handlers that forward upstream, called directly  *)
(* under every choice of upstream channels, with the rules off.            *)
(***************************************************************************)
\* the readings handed to handleSensorMessage here: those of the CO2 sensor
ForwardedReadings == {r \in Readings : r.typeID = CO2_SENSOR_TYPE /\ r.name # ""}

ReadingPatternStep ==
    \E data \in ForwardedReadings \cup {Null},
       mqttSuccess \in Answers(cfg.enableMqtt),
       coapSuccess \in Answers(cfg.enableCoap) :
        HandleSensorMessage(data, mqttSuccess, coapSuccess)

NextForward ==
    \/ ReadingPatternStep
    \/ ResponsePatternStep
    \/ PerformancePatternStep

SpecForward == InitPatterns /\ [][NextForward]_vars

\* the handlers that forward what they are given
Forwarders ==
    {"handleSensorMessage", "handleActuatorCommandResponse",
     "handleSystemPerformanceMessage"}

\* C39: with CoAP enabled, a reading, a response or a sample that its
\* handler accepts is posted over CoAP exactly once.
C39_EveryEntityIsPosted ==
    ( /\ cfg.enableCoap
      /\ last.op \in Forwarders
      /\ last.arg # Null ) =>
        Len(SendsOf(last, "sendPostRequest", last.arg)) = 1

\* C38: handleIncomingMessage returns True exactly when its payload is
\* neither None nor empty, whether or not the payload decodes, the router
\* accepts the command and the task applies it; on None and on the empty
\* payload it decodes nothing, dispatches nothing and leaves every task as
\* it was.
C38_TrueOnAnyPayload ==
    [][ last'.op = "handleIncomingMessage" =>
          /\ last'.ret = Bool(last'.arg \notin {Null, EmptyMsg})
          /\ last'.arg \in {Null, EmptyMsg} =>
                 /\ Len(Decodes(last')) = 0
                 /\ Len(Dispatched(last')) = 0
                 /\ adapters' = adapters
      ]_vars

\* C38 witness: a payload was decoded into a command that the router handed
\* to a task, the task debounced it, and handleIncomingMessage returned True
C38_Witness ==
    /\ last.op = "handleIncomingMessage"
    /\ last.ret = Bool(TRUE)
    /\ Len(Decodes(last)) = 1
    /\ Len(UpdateCalls(last)) = 1
    /\ UpdateCalls(last)[1].ret = Null

\* the readings handed to handleSensorMessage in the last step
HandedOver(l) ==
    {l.log[i].data : i \in {j \in DOMAIN l.log : l.log[j].ev = "handleSensorMessage"}}

\* C35: in an execution of the sensor job in which the handling of one
\* reading raises, the readings of the other three sensors are handed to
\* handleSensorMessage; in one in which the generation of a reading raises,
\* at least three readings are.
C35_OtherSensorsStillDelivered ==
    [][ (Returned("run_job", sensorAdapterMgr) /\ last'.log[1].data # NoFault) =>
          LET fault == last'.log[1].data IN
          IF fault.at = "handleSensorMessage"
          THEN \A i \in DOMAIN TickReadings \ {fault.k} :
                   TickReadings[i] \in HandedOver(last')
          ELSE Cardinality(HandedOver(last')) >= Len(TickReadings) - 1
      ]_vars

\* C33: every command a rule dispatches for a reading handed over by an
\* execution of the sensor job is a request that carries the router's
\* location, and the router hands it on to a task.
C33_RuleCommandsPassTheRouter ==
    last.op = "handleSensorMessage" =>
        \A d \in DOMAIN Dispatched(last) :
            LET ad == Dispatched(last)[d].data IN
            /\ ~ad.isResponse
            /\ ad.locationID = locationID
            /\ Accepted(ad)
            /\ Positions(last.log, "updateActuator", ad) # {}

\* C33 witness: the humidity reading of an execution made its rule dispatch
\* an air purifier command, which the router handed to the air purifier task
C33_Witness ==
    /\ last.op = "handleSensorMessage"
    /\ last.arg.typeID = HUMIDITY_SENSOR_TYPE
    /\ last.arg.locationID = locationID
    /\ Len(Dispatched(last)) = 1
    /\ Dispatched(last)[1].data.locationID = locationID
    /\ ~Dispatched(last)[1].data.isResponse
    /\ Len(UpdateCalls(last)) = 1
    /\ UpdateCalls(last)[1].who = "airPurifierActuator"

\* C34: the latest response of every task carries the response flag, keeps
\* it when it is updated from any command, flagged or not, and is returned
\* None for by the router, which hands it to no task.
C34_ResponseFlagStaysSet ==
    \A f \in ActuatorFields :
        adapters[f] # Null =>
            LET response == adapters[f].latestActuatorResponse IN
            /\ response.isResponse
            /\ \A data \in TaskCommands : updateData(response, data).isResponse
            /\ sendActuatorCommand(adapters, response).ret = Null
            /\ sendActuatorCommand(adapters, response).adapters = adapters

\* C34 witness: the router handed a request to a task, which applied it and
\* updated its latest response from the response it built
C34_Witness ==
    /\ last.op = "sendActuatorCommand"
    /\ last.ret # Null
    /\ ~last.arg.isResponse
    /\ Len(UpdateCalls(last)) = 1
    /\ LET response == adapters[UpdateCalls(last)[1].who].latestActuatorResponse IN
       /\ response.isResponse
       /\ response.command = last.arg.command
       /\ response.value = last.arg.value
       /\ response.locationID = locationID

\* the tasks that are switched on
SwitchedOn(ads) ==
    {f \in ActuatorFields : ads[f] # Null /\ ads[f].lastKnownCommand = COMMAND_ON}

\* C37: a call of handleSensorMessage dispatches ON commands only, runs no
\* task's _deactivateActuator, and leaves every task that was switched on
\* switched on.
C37_RulesOnlySwitchOn ==
    [][ last'.op = "handleSensorMessage" =>
          /\ \A d \in DOMAIN Dispatched(last') :
                 Dispatched(last')[d].data.command = COMMAND_ON
          /\ Len(Calls(last'.log, "_deactivateActuator")) = 0
          /\ SwitchedOn(adapters) \subseteq SwitchedOn(adapters')
      ]_vars

\* C37 witness: the ventilation is on and a CO2 reading at or below the
\* threshold has just been handled with the CO2 rule family enabled
C37_Witness ==
    /\ cfg.handleCO2ChangeOnDevice
    /\ Handled(CO2_SENSOR_TYPE)
    /\ last.arg.value <= triggerVentilationCO2Threshold
    /\ "ventilationActuator" \in SwitchedOn(adapters)
    /\ Len(Dispatched(last)) = 0

(***************************************************************************)
(* SpecSample: one SystemPerformanceData instance under its setters and    *)
(* updateData.                                                             *)
(***************************************************************************)
\* setCpuUtilization, setDiskUtilization, setMemoryUtilization : None is
\* ignored, a number is stored clamped; `arg` is None or holds the number
setUtilization(self, field, arg) ==
    IF arg # Null THEN [self EXCEPT ![field] = clamp(arg.value)] ELSE self

UtilizationFields == {"cpuUtil", "diskUtil", "memUtil"}

SetterOf(field) ==
    CASE field = "cpuUtil" -> "setCpuUtilization"
      [] field = "diskUtil" -> "setDiskUtilization"
      [] field = "memUtil" -> "setMemoryUtilization"

\* SystemPerformanceData._handleUpdateData : the three utilisations of
\* `data` are handed to the three setters
SystemPerformanceData_handleUpdateData(self, data) ==
    IF data # Null
    THEN setUtilization(
             setUtilization(
                 setUtilization(self, "cpuUtil", [value |-> data.cpuUtil]),
                 "diskUtil", [value |-> data.diskUtil]),
             "memUtil", [value |-> data.memUtil])
    ELSE self

\* the numbers handed to the setters: below the range, its bounds, inside
\* it and above it
MinUtil == 0
MaxUtil == 100
UtilNumbers == {MinUtil - 50, MinUtil - 1, MinUtil, 35, MaxUtil, MaxUtil + 1, MaxUtil + 50}
UtilArgs == {[value |-> v] : v \in UtilNumbers} \cup {Null}

\* the instances handed to updateData: whatever fields an instance of
\* another origin carries
OtherSamples ==
    [cpuUtil : {MinUtil - 1, 35}, diskUtil : {35, MaxUtil + 1}, memUtil : {MinUtil, MaxUtil}]

\* a call of one of the three setters
SetUtilization(field, arg) ==
    /\ perfData' = setUtilization(perfData, field, arg)
    /\ \E call \in {[ op |-> SetterOf(field), arg |-> arg, ret |-> Null,
                      log |-> <<Ev(SetterOf(field), "caller", arg, Null)>> ]} :
           /\ last' = call
           /\ repeated' = Repeats(last, call)
    /\ UNCHANGED <<sensorTask, generated, app, flight, hub, threads, cfg, adapters,
                   sensorCache, actuatorCache, handled, sched, perfCache>>

\* a call of updateData
UpdateData(data) ==
    /\ perfData' = SystemPerformanceData_handleUpdateData(perfData, data)
    /\ \E call \in {[ op |-> "updateData", arg |-> data, ret |-> Null,
                      log |-> <<Ev("updateData", "caller", data, Null)>> ]} :
           /\ last' = call
           /\ repeated' = Repeats(last, call)
    /\ UNCHANGED <<sensorTask, generated, app, flight, hub, threads, cfg, adapters,
                   sensorCache, actuatorCache, handled, sched, perfCache>>

InitSample == Init /\ HubIdle /\ ~cfg.useEmulator

SetUtilizationStep ==
    \E field \in UtilizationFields, arg \in UtilArgs : SetUtilization(field, arg)
UpdateDataStep == \E data \in OtherSamples \cup {Null} : UpdateData(data)

NextSample ==
    \/ SetUtilizationStep
    \/ UpdateDataStep

SpecSample == InitSample /\ [][NextSample]_vars

\* the field a setter call was made on
FieldOf(op) == CHOOSE field \in UtilizationFields : SetterOf(field) = op

nearest(v) == IF v < MinUtil THEN MinUtil ELSE IF v > MaxUtil THEN MaxUtil ELSE v

\* C40: the three utilisations of an instance lie in 0..100 whatever
\* setter and updateData calls were made on it; a setter given a number
\* stores the nearest number of 0..100 in its field, given None it leaves the
\* field as it was, and it leaves the two other fields as they were.
C40_UtilizationsStayInRange ==
    /\ [](\A field \in UtilizationFields : perfData[field] \in MinUtil..MaxUtil)
    /\ [][ last'.op \in {SetterOf(field) : field \in UtilizationFields} =>
             /\ perfData'[FieldOf(last'.op)] =
                    IF last'.arg = Null THEN perfData[FieldOf(last'.op)]
                    ELSE nearest(last'.arg.value)
             /\ \A field \in UtilizationFields \ {FieldOf(last'.op)} :
                    perfData'[field] = perfData[field]
         ]_vars

\* C40 witness: setMemoryUtilization was given a number above the range on
\* an instance whose two other fields had been set, and stored 100
C40_Witness ==
    /\ last.op = "setMemoryUtilization"
    /\ last.arg # Null
    /\ last.arg.value > MaxUtil
    /\ perfData.memUtil = MaxUtil
    /\ perfData.cpuUtil = 35
    /\ perfData.diskUtil = MinUtil

(***************************************************************************)
(* SpecRace: two threads call updateActuator of the ventilation task with  *)
(* the same command; each makes the repeat test and the update of the      *)
(* task's fields in steps of its own.                                      *)
(***************************************************************************)
\* the task the two threads call
SharedTask == "ventilationActuator"

\* the commands the two threads are given: requests of the task's type
SharedCommands ==
    CommandsOf({VENTILATION_ACTUATOR_TYPE}, {LocalLocationID},
               {COMMAND_OFF, COMMAND_ON}, 0..MaxCmdValue, {FALSE})

\* both threads are handed the same command and are about to call
\* updateActuator: two executions of the sensor job whose rule dispatched it,
\* or an execution and a callback of the MQTT client
CallTwice(data) ==
    /\ \A t \in Threads : threads[t].pc \in {"idle", "returned"}
    /\ threads' = [t \in Threads |-> [NoThread EXCEPT !.pc = "called", !.arg = data]]
    /\ \E call \in {[ op |-> "handleActuatorCommandMessage", arg |-> data,
                      ret |-> Null, log |-> <<>> ]} :
           /\ last' = call
           /\ repeated' = Repeats(last, call)
    /\ UNCHANGED <<sensorTask, generated, app, flight, perfData, hub, cfg, adapters,
                   sensorCache, actuatorCache, handled, sched, perfCache>>

\* thread t enters updateActuator and makes the type test and the repeat
\* test against the task's fields as they are now
Compare(t) ==
    /\ threads[t].pc = "called"
    /\ \E applies \in {/\ typeMatches(adapters[SharedTask], threads[t].arg)
                       /\ ~isRepeat(adapters[SharedTask], threads[t].arg.command,
                                    threads[t].arg.value)} :
       \E call \in {[ op |-> "updateActuator", arg |-> threads[t].arg, ret |-> Null,
                      log |-> IF applies THEN <<>>
                              ELSE <<Ev("updateActuator", SharedTask,
                                        threads[t].arg, Null)>> ]} :
           /\ threads' = [threads EXCEPT ![t].pc =
                            IF applies THEN "applying" ELSE "returned"]
           /\ last' = call
           /\ repeated' = Repeats(last, call)
    /\ UNCHANGED <<sensorTask, generated, app, flight, perfData, hub, cfg, adapters,
                   sensorCache, actuatorCache, handled, sched, perfCache>>

\* thread t, past the repeat test, runs the side effect, updates the task's
\* fields and returns the response
Apply(t) ==
    /\ threads[t].pc = "applying"
    /\ \E data \in {threads[t].arg} :
       \E done \in {applyCommand(SharedTask, data)} :
       \E actuatorResponse \in {buildResponse(data, done.statusCode)} :
       \E call \in {[ op |-> "updateActuator", arg |-> data, ret |-> actuatorResponse,
                      log |-> <<Ev("updateActuator", SharedTask, data,
                                   actuatorResponse)>> \o done.log ]} :
           /\ adapters' = [adapters EXCEPT ![SharedTask] =
                             [ @ EXCEPT
                                 !.lastKnownCommand = data.command,
                                 !.lastKnownValue = data.value,
                                 !.latestActuatorResponse =
                                     updateData(@, actuatorResponse) ]]
           /\ threads' = [threads EXCEPT ![t].pc = "returned",
                                         ![t].held = [log |-> done.log],
                                         ![t].ret = actuatorResponse]
           /\ last' = call
           /\ repeated' = Repeats(last, call)
    /\ UNCHANGED <<sensorTask, generated, app, flight, perfData, hub, cfg,
                   sensorCache, actuatorCache, handled, sched, perfCache>>

InitRace == Init /\ HubIdle

CallTwiceStep == \E data \in SharedCommands : CallTwice(data)
CompareStep == \E t \in Threads : Compare(t)
ApplyStep == \E t \in Threads : Apply(t)

NextRace ==
    \/ CallTwiceStep
    \/ CompareStep
    \/ ApplyStep

SpecRace == InitRace /\ [][NextRace]_vars

\* the threads whose call has run the side effect and returned a response
Answered == {t \in Threads : threads[t].pc = "returned" /\ threads[t].ret # Null}

\* C31: of two threads that call updateActuator of one task with the same
\* command and value, at most one runs the side effect and gets a response.
C31_AppliedAtMostOnce ==
    Cardinality(Answered) <= 1

(***************************************************************************)
(* SpecShared: two executions of the sensor job, each in a pool thread,    *)
(* are inside generateTelemetry of one task with a data set; the lookup,   *)
(* the increment of the index and its wrap-around are statements of their  *)
(* own.                                                                    *)
(***************************************************************************)
\* SensorDataSet.getDataEntry is asked for an entry the data set has
inDataSet(dataSet, index) == index \in 0..(getDataEntryCount(dataSet) - 1)

\* thread t enters generateTelemetry and looks up the entry at the stored
\* index; a lookup outside the data set raises and ends the call
Lookup(t) ==
    /\ threads[t].pc \in {"idle", "returned", "raised"}
    /\ generated < MaxCalls
    /\ \E index \in {sensorTask.dataSetIndex} :
       \E found \in {inDataSet(sensorTask.dataSet, index)} :
           threads' = [threads EXCEPT ![t] =
               [ pc |-> IF found THEN "looked" ELSE "raised",
                 arg |-> [index |-> index],
                 held |-> IF found
                          THEN [value |-> getDataEntry(sensorTask.dataSet, index)]
                          ELSE Null,
                 ret |-> Null ]]
    /\ generated' = generated + 1
    /\ last' = [op |-> "generateTelemetry", arg |-> Null, ret |-> Null, log |-> <<>>]
    /\ UNCHANGED <<sensorTask, app, flight, perfData, hub, cfg, adapters, sensorCache,
                   actuatorCache, repeated, handled, sched, perfCache>>

\* thread t adds one to the stored index
Advance(t) ==
    /\ threads[t].pc = "looked"
    /\ sensorTask' = [sensorTask EXCEPT !.dataSetIndex = @ + 1]
    /\ threads' = [threads EXCEPT ![t].pc = "advanced"]
    /\ last' = [op |-> "generateTelemetry", arg |-> Null, ret |-> Null, log |-> <<>>]
    /\ UNCHANGED <<generated, app, flight, perfData, hub, cfg, adapters, sensorCache,
                   actuatorCache, repeated, handled, sched, perfCache>>

\* thread t sets the stored index back to 0 if it has reached the number of
\* entries, stores its reading as the latest one and returns it
Wrap(t) ==
    /\ threads[t].pc = "advanced"
    /\ \E sensorData \in {SensorData(sensorTask.typeID, sensorTask.name, NOT_SET,
                                     threads[t].held.value)} :
           /\ sensorTask' = [sensorTask EXCEPT
                  !.dataSetIndex =
                      IF @ >= getDataEntryCount(sensorTask.dataSet) THEN 0 ELSE @,
                  !.latestSensorData = sensorData]
           /\ threads' = [threads EXCEPT ![t].pc = "returned", ![t].ret = sensorData]
           /\ last' = [ op |-> "generateTelemetry", arg |-> Null, ret |-> sensorData,
                        log |-> <<Ev("generateTelemetry", sensorTask.name, Null,
                                     sensorData)>> ]
    /\ UNCHANGED <<generated, app, flight, perfData, hub, cfg, adapters, sensorCache,
                   actuatorCache, repeated, handled, sched, perfCache>>

InitShared ==
    /\ InitDevice /\ HubIdle /\ ~cfg.useEmulator
    /\ sensorTask \in {s \in SensorTasks : ~s.useRandomizer}
    /\ generated = 0
    /\ app = Main(FALSE)
    /\ flight = NoTicks
    /\ perfData = NewSystemPerformanceData
    /\ hub = DeviceDataManager
    /\ threads = NoThreads

LookupStep == \E t \in Threads : Lookup(t)
AdvanceStep == \E t \in Threads : Advance(t)
WrapStep == \E t \in Threads : Wrap(t)

NextShared ==
    \/ LookupStep
    \/ AdvanceStep
    \/ WrapStep

SpecShared == InitShared /\ [][NextShared]_vars

\* the threads that have made a lookup in this step
LooksUp(t) == generated' = generated + 1 /\ threads'[t] # threads[t]

\* C32: with up to two executions inside generateTelemetry of one task with
\* a data set of N entries, every lookup uses an index in 0..N-1 and the
\* k-th lookup uses index (k-1) mod N, so that no entry of a pass is
\* returned twice or skipped.
C32_LookupsInOrder ==
    /\ [](\A t \in Threads :
              threads[t].arg # Null => inDataSet(sensorTask.dataSet, threads[t].arg.index))
    /\ [][ \A t \in Threads :
               LooksUp(t) =>
                   threads'[t].arg.index
                       = generated % getDataEntryCount(sensorTask.dataSet)
         ]_vars

(***************************************************************************)
(* SpecLifecycle: the hub's startManager and stopManager, called one after *)
(* the other by the application's thread and carried out call by call,     *)
(* while the schedulers' threads fire the two jobs and the pools run them. *)
(***************************************************************************)
mqttClient == "mqttClient"

\* a call the hub makes on one of its parts
HubCall(call, on) == [call |-> call, on |-> on]

\* DeviceDataManager.stopManager that disconnects before it stops the
\* polling managers
DeviceDataManager_stopManagerCalls_disconnectFirst ==
    << HubCall("disconnectClient", mqttClient),
       HubCall("stopManager", sysPerfMgr),
       HubCall("stopManager", sensorAdapterMgr) >>

\* DeviceDataManager.startManager : the calls it makes, in their order
\* (the CoAP discovery changes nothing of this state and is left out)
DeviceDataManager_startManagerCalls ==
    << HubCall("connectClient", mqttClient),
       HubCall("startManager", sysPerfMgr),
       HubCall("startManager", sensorAdapterMgr) >>

\* DeviceDataManager.stopManager : the calls it makes, in their order
DeviceDataManager_stopManagerCalls ==
    << HubCall("stopManager", sysPerfMgr),
       HubCall("stopManager", sensorAdapterMgr),
       HubCall("disconnectClient", mqttClient) >>

HubOps == {"DeviceDataManager.startManager", "DeviceDataManager.stopManager"}

HubCalls(op) ==
    IF op = "DeviceDataManager.startManager"
    THEN DeviceDataManager_startManagerCalls
    ELSE DeviceDataManager_stopManagerCalls

\* MqttClientConnector.connectClient followed by the two subscribeToTopic
\* calls, made if the hub has an MQTT client
connectClient(h, config) ==
    IF config.enableMqtt
    THEN [h EXCEPT !.mqttConnected = TRUE, !.mqttSubscribed = TRUE]
    ELSE h

\* the two unsubscribeFromTopic calls followed by
\* MqttClientConnector.disconnectClient, made if the hub has an MQTT client
disconnectClient(h, config) ==
    IF config.enableMqtt
    THEN [h EXCEPT !.mqttConnected = FALSE, !.mqttSubscribed = FALSE]
    ELSE h

\* the hub's caller after the call at position h.at
nextCall(h) ==
    IF h.at < Len(HubCalls(h.pc))
    THEN [h EXCEPT !.at = @ + 1]
    ELSE [h EXCEPT !.pc = "idle", !.at = 0]

\* the hub after call c
hubAfter(c, h, config) ==
    nextCall(IF c.call = "connectClient" THEN connectClient(h, config)
             ELSE IF c.call = "disconnectClient" THEN disconnectClient(h, config)
             ELSE h)

\* what call c on a polling manager leaves of the manager and returns; a
\* stopManager that finds executions in progress has not returned yet
managerAfter(c, self) ==
    IF c.call = "startManager"
    THEN Then(startManager(c.on, self), LAMBDA r :
         [ self |-> [r.self EXCEPT !.stopped = FALSE], ret |-> r.ret, waits |-> FALSE ])
    ELSE Then(stopManager(c.on, self), LAMBDA r :
         Then(IF ~r.waits THEN r
              ELSE IF r.self.scheduler.instances = 0
                   THEN stopManagerReturns(c.on, r.self) @@ [waits |-> FALSE]
                   ELSE r, LAMBDA done :
         [ self |-> [done.self EXCEPT !.latePass = done.waits,
                                      !.stopped = ~done.waits,
                                      !.failed = FALSE],
           ret |-> IF done.waits THEN Null ELSE done.ret,
           waits |-> done.waits ]))

\* the application's thread calls startManager or stopManager of the hub
CallHub(op) ==
    /\ hub.pc = "idle"
    /\ AppThreadFree
    /\ hub' = [hub EXCEPT !.pc = op, !.at = 1]
    /\ \E call \in {[op |-> op, arg |-> Null, ret |-> Null, log |-> <<>>]} :
           /\ last' = call
           /\ repeated' = Repeats(last, call)
    /\ UNCHANGED <<sensorTask, generated, app, flight, perfData, threads, cfg, adapters,
                   sensorCache, actuatorCache, handled, sched, perfCache>>

\* the hub makes the next call of its startManager or stopManager
HubStep ==
    /\ hub.pc # "idle"
    /\ AppThreadFree
    /\ \E c \in {HubCalls(hub.pc)[hub.at]} :
           /\ hub' = hubAfter(c, hub, cfg)
           /\ IF c.on \in Managers
              THEN \E r \in {managerAfter(c, sched[c.on])} :
                   \E call \in {[ op |-> IF r.waits THEN "shutdown" ELSE c.call,
                                  arg |-> On(c.on), ret |-> r.ret,
                                  log |-> <<Ev(c.call, c.on, Null, r.ret)>> ]} :
                       /\ sched' = [sched EXCEPT ![c.on] = r.self]
                       /\ last' = call
                       /\ repeated' = Repeats(last, call)
              ELSE \E call \in {[ op |-> c.call, arg |-> On(c.on),
                                  ret |-> Bool(cfg.enableMqtt),
                                  log |-> <<Ev(c.call, c.on, Null,
                                               Bool(cfg.enableMqtt))>> ]} :
                       /\ sched' = sched
                       /\ last' = call
                       /\ repeated' = Repeats(last, call)
    /\ UNCHANGED <<sensorTask, generated, app, flight, perfData, threads, cfg, adapters,
                   sensorCache, actuatorCache, handled, perfCache>>

InitLifecycle ==
    /\ Init /\ ~cfg.useEmulator /\ ~cfg.enableCoap
    /\ ~cfg.handleCO2ChangeOnDevice /\ ~cfg.handleTempChangeOnDevice

CallHubStep == \E op \in HubOps : CallHub(op)

NextLifecycle ==
    \/ CallHubStep
    \/ HubStep
    \/ StopManagerReturnsStep
    \/ ProcessJobsStep
    \/ RunSensorJobStep
    \/ RunPerfJobStep

SpecLifecycle == InitLifecycle /\ [][NextLifecycle]_vars

\* the scheduler of manager m fires its job or an execution is in progress
Active(m) ==
    /\ sched[m].scheduler # Null
    /\ sched[m].scheduler.running \/ sched[m].scheduler.instances > 0

\* C36: on a hub with an MQTT client, whatever startManager and stopManager
\* calls are made, the client is connected and subscribed whenever a
\* scheduler runs or an execution of a job is in progress, and every tick
\* that publishes over MQTT does so on a connected client.
C36_TicksPublishWhileConnected ==
    /\ []((cfg.enableMqtt /\ \E m \in Managers : Active(m))
              => (hub.mqttConnected /\ hub.mqttSubscribed))
    /\ [][ (last'.op = "run_job" /\ MqttSends(last') # <<>>)
              => (hub.mqttConnected /\ hub'.mqttConnected) ]_vars

\* C36 witness: an execution of the sensor job has published over MQTT
\* while the hub's stopManager was waiting for the sensor scheduler, the
\* performance manager already stopped and the client still connected
C36_Witness ==
    /\ last.op = "run_job" /\ last.arg = On(sensorAdapterMgr)
    /\ MqttSends(last) # <<>>
    /\ hub.pc = "DeviceDataManager.stopManager"
    /\ sched[sysPerfMgr].stopped
    /\ sched[sensorAdapterMgr].stopping
    /\ hub.mqttConnected

====
